---- MODULE Spec2Model ----
(***************************************************************************)
(* Model of the analytics endpoint of ozolsclubachievements                *)
(* (app/api/route.js, kept here as src/unnamed/part_003): the append-only  *)
(* log of lock entries, the GET handler that turns a request into a        *)
(* payload of aggregates, and the aggregation pipelines it runs.           *)
(*                                                                         *)
(* Conventions.                                                            *)
(*  - An instant is an integer number of HOURS since the model's epoch     *)
(*    (the code works in milliseconds; every instant of the model is a     *)
(*    whole hour, so 86400000 ms is 24 units).                             *)
(*  - Identifiers (usernames, lock ids) are sequences of character codes,  *)
(*    so that the store's binary string order and case folding are         *)
(*    computed and not assumed.  The empty sequence is the empty string.   *)
(*  - A value that is "x or null" in the code is a sequence of length <= 1 *)
(*    (the facet's output array before the "[0] ? ... : null" mapping).    *)
(***************************************************************************)
EXTENDS Integers, Sequences, FiniteSets, TLC

VARIABLES
    log,        \* the Entry collection, in insertion (_id) order
    timeZone,   \* the server's local time zone, fixed for the process
    req,        \* <<>> or <<the request being answered>>
    resp,       \* <<>> or <<the payload of that request>>
    scan,       \* <<>> or <<one run of a $reduce or of a loop, step by step>>
    rank,       \* <<>> or <<one run of the $sort/$limit stages>>
    dist,       \* <<>> or <<one run of the bucket stages>>
    call,       \* <<>> or <<the handler invocation in progress, read by read>>
    buckets,    \* the rate limiter's Map: key -> [tokens, updatedAt]
    clock,      \* Date.now()
    hist        \* <<>> or <<the limiter's configuration and calls so far>>

(* the state of the handler run read by read, and of the rate limiter *)
handlerVars == <<call, buckets, clock, hist>>

vars == <<log, timeZone, req, resp, scan, rank, dist, handlerVars>>

(* no invocation in progress, no bucket, the clock at its origin *)
HandlerIdle ==
    /\ call = <<>>
    /\ buckets = <<>>
    /\ clock = 0
    /\ hist = <<>>

----------------------------------------------------------------------------
(* Bounds of the model *)

MaxLog == 3          \* entries in the log
NDays == 3           \* calendar days 1..NDays a request's date can name
DaysPerMonth == 2    \* length of a model month (months are scaled down)
TransitionDay == 1   \* local day on which the zone "Riga" springs forward

(* Program constants *)

EarlyHour == 8
LateHour == 22
LeaderboardLimit == 5
DayMs == 24

----------------------------------------------------------------------------
(* Identifiers *)

UserA == <<97>>
UserB == <<98>>
Users == {UserA, UserB}

PRIMARY_LOCK == <<49, 57, 50, 50, 56, 48, 49, 53>>
OtherLock == <<49, 55>>
Locks == {PRIMARY_LOCK, OtherLock}

NoFilter == <<>>

(* Binary string order of the store ($sort on a string field). *)
LexLess(s, t) ==
    \E k \in 1..Len(t) :
        /\ \A j \in 1..(k - 1) : j <= Len(s) /\ s[j] = t[j]
        /\ \/ k = Len(s) + 1
           \/ k <= Len(s) /\ s[k] < t[k]

ToLowerCode(c) == IF c \in 65..90 THEN c + 32 ELSE c

ToLower(s) == [j \in 1..Len(s) |-> ToLowerCode(s[j])]

(* the characters userId.replace(/[.*+?^${}()|[\]\\]/g, ...) looks for:  *)
(* . * + ? ^ $ { } ( ) | [ ] and the backslash                          *)
MetaChars == {46, 42, 43, 63, 94, 36, 123, 125, 40, 41, 124, 91, 93, 92}

(* variant: the userId goes into the pattern as it is *)
EscapeNothing(s) == s

(* replace(..., '\\$&'): a backslash is put before each such character *)
RECURSIVE Escape(_)
Escape(s) ==
    IF s = <<>> THEN <<>>
    ELSE (IF Head(s) \in MetaChars THEN <<92, Head(s)>> ELSE <<Head(s)>>)
         \o Escape(Tail(s))

(* `^${escaped}$` *)
UsernameRegex(userId) == <<94>> \o Escape(userId) \o <<36>>

(* The pattern language, as far as the patterns of the model use it:     *)
(* literals, a backslash before a character that is not a letter or a   *)
(* digit (that character itself), the dot, the anchors ^ and $, the       *)
(* quantifiers * + ? after an atom, and alternatives separated by |.     *)
(* Groups, classes and counted repetitions are not interpreted; the      *)
(* strings of the model hold no line terminator.                         *)

IsWordChar(c) == c \in 48..57 \/ c \in 65..90 \/ c \in 97..122

(* the pattern has an atom at position i *)
AtomOk(p, i) ==
    IF p[i] = 92 THEN i < Len(p) /\ ~IsWordChar(p[i + 1])
    ELSE p[i] \notin {42, 43, 63, 40, 41, 91, 93, 123, 125, 124}

AtomLen(p, i) == IF p[i] = 92 THEN 2 ELSE 1

(* the atom at position i matches the character c, letter case ignored *)
AtomMatches(p, i, c) ==
    IF p[i] = 92 THEN p[i + 1] = c
    ELSE IF p[i] = 46 THEN c # 10
    ELSE ToLowerCode(p[i]) = ToLowerCode(c)

(* the pattern p from position i on matches s from position j on *)
RECURSIVE MatchHere(_, _, _, _)
MatchHere(p, i, s, j) ==
    IF i > Len(p) THEN TRUE
    ELSE IF p[i] = 94 THEN j = 1 /\ MatchHere(p, i + 1, s, j)
    ELSE IF p[i] = 36 THEN j = Len(s) + 1 /\ MatchHere(p, i + 1, s, j)
    ELSE IF ~AtomOk(p, i) THEN FALSE
    ELSE LET q == i + AtomLen(p, i)
             quant == IF q <= Len(p) /\ p[q] \in {42, 43, 63} THEN p[q] ELSE 0
             next == IF quant = 0 THEN q ELSE q + 1
             lo == IF quant \in {42, 63} THEN 0 ELSE 1
             hi == IF quant \in {42, 43} THEN Len(s) - j + 1 ELSE 1
         IN  \E n \in lo..hi :
                /\ j + n - 1 <= Len(s)
                /\ \A k \in j..(j + n - 1) : AtomMatches(p, i, s[k])
                /\ MatchHere(p, next, s, j + n)

(* the character at position i is preceded by an odd number of backslashes *)
RECURSIVE IsEscaped(_, _)
IsEscaped(p, i) == i > 1 /\ p[i - 1] = 92 /\ ~IsEscaped(p, i - 1)

(* the alternatives of p: its parts between the bars that are not escaped *)
Alternatives(p) ==
    LET bars == {i \in 1..Len(p) : p[i] = 124 /\ ~IsEscaped(p, i)}
        cuts == {0} \cup bars \cup {Len(p) + 1}
    IN  {SubSeq(p, a + 1, b - 1) :
            <<a, b>> \in {c \in cuts \X cuts :
                            /\ c[1] < c[2]
                            /\ \A x \in cuts : ~(c[1] < x /\ x < c[2])}}

(* { $regex: p, $options: 'i' }: some alternative matches somewhere in s *)
RegexTest(p, s) ==
    \E alt \in Alternatives(p) : \E j \in 1..(Len(s) + 1) :
        MatchHere(alt, 1, s, j)

(* username: { $regex: `^${escaped}$`, $options: 'i' } *)
UsernameMatches(username, userId) == RegexTest(UsernameRegex(userId), username)

(* (searchParams.get('userId') || '').trim(), for the space character *)
RECURSIVE TrimStart(_)
TrimStart(s) == IF s # <<>> /\ Head(s) = 32 THEN TrimStart(Tail(s)) ELSE s

RECURSIVE TrimEnd(_)
TrimEnd(s) ==
    IF s # <<>> /\ s[Len(s)] = 32 THEN TrimEnd(SubSeq(s, 1, Len(s) - 1)) ELSE s

Trim(s) == TrimEnd(TrimStart(s))

----------------------------------------------------------------------------
(* Time zones.  "UTC" has offset 0.  "Riga" has offset +2 h until the      *)
(* spring transition (01:00 UTC on TransitionDay, local 03:00 -> 04:00)    *)
(* and +3 h after it, so local day TransitionDay is 23 hours long.         *)

TimeZones == {"UTC", "Riga"}

TransitionInstant == TransitionDay * 24 + 1

Offset(tz, t) ==
    IF tz = "UTC" THEN 0 ELSE IF t < TransitionInstant THEN 2 ELSE 3

(* $dateToString %Y-%m-%d with timezone: the local calendar day *)
DayString(tz, t) == (t + Offset(tz, t)) \div 24

(* $hour with timezone *)
HourOf(tz, t) == (t + Offset(tz, t)) % 24

(* the instant of local midnight of local day d (startOfDay, new Date(y,m,d)) *)
StartOfDay(tz, d) ==
    IF tz = "UTC" THEN d * 24
    ELSE IF d * 24 - 2 < TransitionInstant THEN d * 24 - 2 ELSE d * 24 - 3

(* endOfDay: the last instant of local day d *)
EndOfDay(tz, d) == StartOfDay(tz, d + 1) - 1

(* $dateTrunc unit day with timezone: a Date, the instant of local midnight *)
DateTruncDay(tz, t) == StartOfDay(tz, DayString(tz, t))

MonthOf(d) == (d - 1) \div DaysPerMonth

StartOfMonth(tz, d) == StartOfDay(tz, MonthOf(d) * DaysPerMonth + 1)

EndOfMonth(tz, d) == EndOfDay(tz, (MonthOf(d) + 1) * DaysPerMonth)

(* the instant at which the local wall clock of tz shows day d, hour h *)
LocalToUtc(tz, d, h) ==
    IF tz = "UTC" THEN d * 24 + h
    ELSE IF d * 24 + h - 2 < TransitionInstant THEN d * 24 + h - 2
         ELSE d * 24 + h - 3

(* wall-clock times <<day, hour>> at which the modelled entries happen *)
WallClock == {<<1, 7>>, <<1, 22>>, <<2, 8>>}

----------------------------------------------------------------------------
(* The Entry collection *)

Docs(lg) ==
    {[id |-> i, username |-> lg[i].username, lockId |-> lg[i].lockId,
      entryTime |-> lg[i].entryTime] : i \in 1..Len(lg)}

OnPrimary(docs) == {e \in docs : e.lockId = PRIMARY_LOCK}

InRange(docs, rangeStart, rangeEnd) ==
    {e \in docs : e.entryTime >= rangeStart /\ e.entryTime <= rangeEnd}

LockFilter(docs, lockId) ==
    IF lockId = NoFilter THEN docs ELSE {e \in docs : e.lockId = lockId}

UserFilter(docs, userId) ==
    IF userId = NoFilter THEN docs
    ELSE {e \in docs : UsernameMatches(e.username, userId)}

----------------------------------------------------------------------------
(* Pipeline stages shared by the aggregations *)

Min(x, y) == IF x < y THEN x ELSE y

(* $sort: { count: -1, _id: 1 } on rows [id, count] with distinct ids *)
RankedBefore(r, q) ==
    \/ r.count > q.count
    \/ r.count = q.count /\ LexLess(r.id, q.id)

RECURSIVE SortRows(_)
SortRows(rows) ==
    IF rows = {} THEN <<>>
    ELSE LET top == CHOOSE r \in rows : \A q \in rows \ {r} : RankedBefore(r, q)
         IN  <<top>> \o SortRows(rows \ {top})

(* variant: the $limit stage is missing *)
SortWithoutLimit(rows, n) == SortRows(rows)

(* $sort: { count: -1, _id: 1 }, $limit: n *)
SortLimit(rows, n) ==
    LET sorted == SortRows(rows)
    IN  SubSeq(sorted, 1, Min(n, Len(sorted)))

(* ascending array of a set of Date values ($sort then $push): the      *)
(* instants from the least to the greatest that belong to the set, in   *)
(* increasing order                                                     *)
SortAsc(S) ==
    IF S = {} THEN <<>>
    ELSE LET lo == CHOOSE x \in S : \A y \in S : x <= y
             up == {0 - x : x \in S}
             hi == 0 - (CHOOSE x \in up : \A y \in up : x <= y)
         IN  SelectSeq([i \in 1..(hi - lo + 1) |-> lo + i - 1],
                       LAMBDA x : x \in S)

UsersOf(docs) == {e.username : e \in docs}

(* $group: { _id: '$username', count: { $sum: 1 } } *)
RawUserCounts(docs) ==
    {[id |-> u, count |-> Cardinality({e \in docs : e.username = u})] :
        u \in UsersOf(docs)}

(* $match lockId != null, $group: { _id: '$lockId', count: { $sum: 1 } } *)
RawLockCounts(docs) ==
    {[id |-> l, count |-> Cardinality({e \in docs : e.lockId = l})] :
        l \in {e.lockId : e \in docs}}

(* $group: { _id: '$hour', count: { $sum: 1 } }, rows [hour, count] *)
RawHourCounts(docs, tz) ==
    {[hour |-> h,
      count |-> Cardinality({e \in docs : HourOf(tz, e.entryTime) = h})] :
        h \in {HourOf(tz, e.entryTime) : e \in docs}}

(* variant: entries per user, the (user, day) $group is missing *)
EntryCountsPerUser(docs, tz) == RawUserCounts(docs)

(* distinct (user, day) pairs, then days per user *)
DistinctDayCounts(docs, tz) ==
    LET pairs == {<<e.username, DayString(tz, e.entryTime)>> : e \in docs}
    IN  {[id |-> u, count |-> Cardinality({p \in pairs : p[1] = u})] :
            u \in {p[1] : p \in pairs}}

(* variant: $first in insertion order, the $sort by entryTime is missing *)
FirstOfDayById(docs, tz, u, d) ==
    LET G == {e \in docs : e.username = u /\ DayString(tz, e.entryTime) = d}
    IN  CHOOSE e \in G : \A f \in G : e.id <= f.id

(* $sort: { entryTime: 1, _id: 1 } then $first per (user, day) group *)
FirstOfDay(docs, tz, u, d) ==
    LET G == {e \in docs : e.username = u /\ DayString(tz, e.entryTime) = d}
    IN  CHOOSE e \in G : \A f \in G :
            \/ e.entryTime < f.entryTime
            \/ e.entryTime = f.entryTime /\ e.id <= f.id

(* days whose FIRST entry is before 08:00, per user *)
EarlyBirdCounts(docs, tz) ==
    LET pairs == {<<e.username, DayString(tz, e.entryTime)>> : e \in docs}
        early == {p \in pairs :
                    HourOf(tz, FirstOfDay(docs, tz, p[1], p[2]).entryTime)
                        < EarlyHour}
    IN  {[id |-> u, count |-> Cardinality({p \in early : p[1] = u})] :
            u \in {p[1] : p \in early}}

(* days with an entry at or after 22:00, per user *)
NightOwlCounts(docs, tz) ==
    LET late  == {e \in docs : HourOf(tz, e.entryTime) >= LateHour}
        pairs == {<<e.username, DayString(tz, e.entryTime)>> : e \in late}
    IN  {[id |-> u, count |-> Cardinality({p \in pairs : p[1] = u})] :
            u \in {p[1] : p \in pairs}}

----------------------------------------------------------------------------
(* The streak computation: $reduce over the ascending array of day Dates *)

ReduceInit == [last |-> <<>>, curr |-> 0, best |-> 0]

(* { $eq: [ { $divide: [ { $subtract: [this, last] }, 86400000 ] }, 1 ] } *)
IsConsecutive(this, last) == (this - last) = DayMs

(* variant: best is compared with the run before this day, not after it *)
ReduceStepStaleBest(value, this) ==
    LET nextCurr == IF value.last # <<>> /\ IsConsecutive(this, value.last[1])
                    THEN value.curr + 1
                    ELSE 1
    IN  [last |-> <<this>>,
         curr |-> nextCurr,
         best |-> IF value.curr > value.best THEN value.curr ELSE value.best]

ReduceStep(value, this) ==
    LET nextCurr == IF value.last # <<>> /\ IsConsecutive(this, value.last[1])
                    THEN value.curr + 1
                    ELSE 1
    IN  [last |-> <<this>>,
         curr |-> nextCurr,
         best |-> IF nextCurr > value.best THEN nextCurr ELSE value.best]

(* $reduce over arr[i..j], starting from value: the elements are taken in *)
(* order, a range being reduced as its first half and then its second    *)
(* (the value after a non-empty range has curr >= 1)                     *)
RECURSIVE ReduceRange(_, _, _, _)
ReduceRange(value, arr, i, j) ==
    IF i > j THEN value
    ELSE IF i = j THEN ReduceStep(value, arr[i])
    ELSE LET mid == (i + j) \div 2
             left == ReduceRange(value, arr, i, mid)
         IN  CASE left.curr >= 1 -> ReduceRange(left, arr, mid + 1, j)

StreakReduce(arr) == ReduceRange(ReduceInit, arr, 1, Len(arr))

(* the ordered array of distinct day Dates of one user *)
DayArray(docs, tz, u) ==
    SortAsc({DateTruncDay(tz, e.entryTime) : e \in {f \in docs : f.username = u}})

(* longest streak per user *)
LongestStreakCounts(docs, tz) ==
    {[id |-> u, count |-> StreakReduce(DayArray(docs, tz, u)).best] :
        u \in UsersOf(docs)}

----------------------------------------------------------------------------
(* Retention and streak distributions *)

(* variant: the overflow bucket starts one day late *)
RetentionBucketOffByOne(days) == IF days > 20 THEN "20+" ELSE ToString(days)

(* $cond: [ { $gt: ['$days', 19] }, '20+', { $toString: '$days' } ] *)
RetentionBucket(days) == IF days > 19 THEN "20+" ELSE ToString(days)

(* the $switch on the longest streak, default '16+' *)
StreakBucket(longest) ==
    IF longest = 1 THEN "1"
    ELSE IF longest >= 2 /\ longest <= 3 THEN "2-3"
    ELSE IF longest >= 4 /\ longest <= 7 THEN "4-7"
    ELSE IF longest >= 8 /\ longest <= 15 THEN "8-15"
    ELSE "16+"

RetentionDefault == [k \in {ToString(i) : i \in 1..19} \cup {"20+"} |-> 0]

StreakDefault == [k \in {"1", "2-3", "4-7", "8-15", "16+"} |-> 0]

(* variant: { ...raw, ...defaults }, the zero defaults win *)
SpreadDefaultsLast(defaults, raw) ==
    [k \in DOMAIN defaults \cup DOMAIN raw |->
        IF k \in DOMAIN defaults THEN defaults[k] ELSE raw[k]]

(* { ...defaults, ...raw } *)
Spread(defaults, raw) ==
    [k \in DOMAIN defaults \cup DOMAIN raw |->
        IF k \in DOMAIN raw THEN raw[k] ELSE defaults[k]]

(* $group: { _id: '$bucket', count: { $sum: 1 } } then Object.fromEntries, *)
(* for per-user rows [id, count]                                           *)
RetentionRaw(rows) ==
    [k \in {RetentionBucket(r.count) : r \in rows} |->
        Cardinality({r \in rows : RetentionBucket(r.count) = k})]

StreakRaw(rows) ==
    [k \in {StreakBucket(r.count) : r \in rows} |->
        Cardinality({r \in rows : StreakBucket(r.count) = k})]

RetentionBuckets(rows) == Spread(RetentionDefault, RetentionRaw(rows))

StreakBuckets(rows) == Spread(StreakDefault, StreakRaw(rows))

(* retention facet: distinct $dateTrunc days per user *)
RetentionDays(docs, tz) ==
    LET pairs == {<<e.username, DateTruncDay(tz, e.entryTime)>> : e \in docs}
    IN  {[id |-> u, count |-> Cardinality({p \in pairs : p[1] = u})] :
            u \in {p[1] : p \in pairs}}

----------------------------------------------------------------------------
(* Requests *)

(* the catalog: one season "S1" lasting from local day 2 to local day 3 *)
SEASONS == {[key |-> <<83, 49>>, startDay |-> 2, endDay |-> 3]}

Periods == {"day", "month"}

(* the values of the date parameter that are not a day: the parameter is *)
(* missing, or it is a text no date can be parsed from (such as 'abc')    *)
AbsentDate == 0
UnparseableDate == -1

(* days the rolling periods reach back from today (the months of the     *)
(* model are DaysPerMonth long, and these windows are scaled with them)  *)
Last7Back == 1
Last30Back == 2

(* the requests of the model: every period and date without a season, and *)
(* each season of the catalog with the default period                     *)
Requests ==
    [period : Periods, date : 1..NDays, lockId : {NoFilter} \cup Locks,
     userId : {NoFilter, UserA}, season : {NoFilter}]
    \cup
    [period : {"day"}, date : {1}, lockId : {NoFilter} \cup Locks,
     userId : {NoFilter, UserA}, season : {s.key : s \in SEASONS}]

(* SEASONS.find(s => s.key.toLowerCase() === seasonKey.toLowerCase()) *)
ActiveSeason(r) == {s \in SEASONS : ToLower(s.key) = ToLower(r.season)}

(* the local day of the Date the window is computed from: the day the    *)
(* date parameter names, or today when the parameter is missing          *)
RefDay(tz, r) ==
    IF r.date = AbsentDate THEN DayString(tz, r.now) ELSE r.date

(* new Date(dateParam) is an Invalid Date, and the window is made of it *)
WindowIsInvalid(r) ==
    /\ ActiveSeason(r) = {}
    /\ r.period \in {"day", "month"}
    /\ r.date = UnparseableDate

(* variant: a season replaces the window but not the period *)
WindowKeepsPeriod(tz, r) ==
    IF ActiveSeason(r) # {}
    THEN LET s == CHOOSE x \in ActiveSeason(r) : TRUE
         IN  [rangeStart |-> StartOfDay(tz, s.startDay),
              rangeEnd |-> EndOfDay(tz, s.endDay),
              period |-> r.period, seasonActive |-> FALSE]
    ELSE [rangeStart |-> StartOfDay(tz, RefDay(tz, r)),
          rangeEnd |-> EndOfDay(tz, RefDay(tz, r)),
          period |-> "day", seasonActive |-> FALSE]

(* rangeStart, rangeEnd and the effective period *)
Window(tz, r) ==
    IF ActiveSeason(r) # {}
    THEN LET s == CHOOSE x \in ActiveSeason(r) : TRUE
         IN  [rangeStart |-> StartOfDay(tz, s.startDay),
              rangeEnd |-> EndOfDay(tz, s.endDay),
              period |-> "month", seasonActive |-> TRUE]
    ELSE IF r.period = "month"
    THEN [rangeStart |-> StartOfMonth(tz, RefDay(tz, r)),
          rangeEnd |-> EndOfMonth(tz, RefDay(tz, r)),
          period |-> "month", seasonActive |-> FALSE]
    ELSE IF r.period = "last7"
    THEN [rangeStart |-> DateTruncDay(tz, r.now - Last7Back * DayMs),
          rangeEnd |-> EndOfDay(tz, DayString(tz, r.now)),
          period |-> "last7", seasonActive |-> FALSE]
    ELSE IF r.period = "last30"
    THEN [rangeStart |-> DateTruncDay(tz, r.now - Last30Back * DayMs),
          rangeEnd |-> EndOfDay(tz, DayString(tz, r.now)),
          period |-> "last30", seasonActive |-> FALSE]
    ELSE IF r.period = "mtd"
    THEN [rangeStart |-> StartOfMonth(tz, DayString(tz, r.now)),
          rangeEnd |-> EndOfDay(tz, DayString(tz, r.now)),
          period |-> "mtd", seasonActive |-> FALSE]
    ELSE [rangeStart |-> StartOfDay(tz, RefDay(tz, r)),
          rangeEnd |-> EndOfDay(tz, RefDay(tz, r)),
          period |-> "day", seasonActive |-> FALSE]

(* const query = { entryTime in range, lockId?, usernameFilter? } *)
Query(docs, w, r) ==
    UserFilter(LockFilter(InRange(docs, w.rangeStart, w.rangeEnd), r.lockId),
               r.userId)

----------------------------------------------------------------------------
(* Range summary (agg_achievements) *)

(* variant: raw entry counts in every period *)
MostActiveUserRaw(matched, tz, period) == SortLimit(RawUserCounts(matched), 1)

MostActiveUser(matched, tz, period) ==
    IF period = "month"
    THEN SortLimit(DistinctDayCounts(OnPrimary(matched), tz), 1)
    ELSE SortLimit(RawUserCounts(matched), 1)

(* variant: the lock facet is computed in every period *)
MostUsedLockAlways(matched, period) == SortLimit(RawLockCounts(matched), 1)

MostUsedLock(matched, period) ==
    IF period = "month" THEN <<>> ELSE SortLimit(RawLockCounts(matched), 1)

(* $sort: { count: -1, _id: 1 }, $limit: 1 on the hour rows *)
BusiestHour(matched, tz, period) ==
    IF period = "month" \/ matched = {} THEN <<>>
    ELSE LET rows == RawHourCounts(matched, tz)
         IN  <<CHOOSE x \in rows : \A y \in rows \ {x} :
                    \/ x.count > y.count
                    \/ x.count = y.count /\ x.hour < y.hour>>

DayAggregates(matched, tz, period) ==
    [totalEntries |-> Cardinality(matched),
     uniqueUsers |-> Cardinality(UsersOf(matched)),
     mostActiveUser |-> MostActiveUser(matched, tz, period),
     mostUsedLock |-> MostUsedLock(matched, period),
     busiestHour |-> BusiestHour(matched, tz, period),
     firstEntryTime |->
        IF matched = {} THEN <<>>
        ELSE <<CHOOSE t \in {e.entryTime : e \in matched} :
                    \A e \in matched : t <= e.entryTime>>,
     lastEntryTime |->
        IF matched = {} THEN <<>>
        ELSE <<CHOOSE t \in {e.entryTime : e \in matched} :
                    \A e \in matched : t >= e.entryTime>>]

----------------------------------------------------------------------------
(* Leaderboards for the current range (agg_leaderboards) *)

(* $match: { entryTime in range, ...(lockId ? { lockId } : {}) } *)
LeaderboardMatch(docs, w, lockId) ==
    LockFilter(InRange(docs, w.rangeStart, w.rangeEnd), lockId)

(* month topUsers: users ranked by distinct active days on the primary lock *)
MonthTopUsers(lb, tz) ==
    SortLimit(DistinctDayCounts(OnPrimary(lb), tz), LeaderboardLimit)

MonthLeaderboards(lb, tz) ==
    [topUsers |-> MonthTopUsers(lb, tz),
     topLocks |-> <<>>,
     topEarlyBirds |-> SortLimit(EarlyBirdCounts(OnPrimary(lb), tz), LeaderboardLimit),
     topNightOwls |-> SortLimit(NightOwlCounts(OnPrimary(lb), tz), LeaderboardLimit),
     topLongestStreaks |->
        SortLimit(LongestStreakCounts(OnPrimary(lb), tz), LeaderboardLimit)]

DayLeaderboards(lb, tz) ==
    [topUsers |-> SortLimit(RawUserCounts(lb), LeaderboardLimit),
     topLocks |-> SortLimit(RawLockCounts(lb), LeaderboardLimit),
     topEarlyBirds |-> SortLimit(EarlyBirdCounts(lb, tz), LeaderboardLimit),
     topNightOwls |-> SortLimit(NightOwlCounts(lb, tz), LeaderboardLimit),
     topLongestStreaks |-> <<>>]

Leaderboards(docs, tz, w, lockId) ==
    IF w.period = "month"
    THEN MonthLeaderboards(LeaderboardMatch(docs, w, lockId), tz)
    ELSE DayLeaderboards(LeaderboardMatch(docs, w, lockId), tz)

----------------------------------------------------------------------------
(* Analytics (agg_analytics): the query with lockId forced to the primary lock *)

AnalyticsQuery(docs, w, r) ==
    UserFilter(OnPrimary(InRange(docs, w.rangeStart, w.rangeEnd)), r.userId)

Analytics(analyzed, tz) ==
    [retentionBuckets |-> RetentionBuckets(RetentionDays(analyzed, tz)),
     streakBuckets |-> StreakBuckets(LongestStreakCounts(analyzed, tz))]

----------------------------------------------------------------------------
(* The payload of one request over one state of the log *)

Payload(lg, tz, r) ==
    LET w == Window(tz, r)
        docs == Docs(lg)
        matched == Query(docs, w, r)
    IN  [period |-> w.period,
         total |-> Cardinality(matched),
         dayAggregates |-> DayAggregates(matched, tz, w.period),
         leaderboards |-> Leaderboards(docs, tz, w, r.lockId),
         analytics |-> Analytics(AnalyticsQuery(docs, w, r), tz)]

----------------------------------------------------------------------------
(* Actions *)

Init ==
    /\ HandlerIdle
    /\ log = <<>>
    /\ timeZone \in TimeZones
    /\ req = <<>>
    /\ resp = <<>>
    /\ scan = <<>>
    /\ rank = <<>>
    /\ dist = <<>>

(* an entry is ingested into the log (outside the endpoint) *)
AppendEntry ==
    /\ req = <<>>
    /\ Len(log) < MaxLog
    /\ \E u \in Users, l \in Locks, wc \in WallClock :
          log' = Append(log, [username |-> u, lockId |-> l,
                              entryTime |-> LocalToUtc(timeZone, wc[1], wc[2])])
    /\ UNCHANGED <<timeZone, req, resp, scan, rank, dist, handlerVars>>

(* GET /api: the handler runs to its response *)
GET ==
    /\ req = <<>>
    /\ \E r \in Requests :
          /\ req' = <<r>>
          /\ resp' = <<Payload(log, timeZone, r)>>
    /\ UNCHANGED <<log, timeZone, scan, rank, dist, handlerVars>>

(* the response has been sent *)
Reply ==
    /\ req # <<>>
    /\ req' = <<>>
    /\ resp' = <<>>
    /\ UNCHANGED <<log, timeZone, scan, rank, dist, handlerVars>>

Next == AppendEntry \/ GET \/ Reply

Spec == Init /\ [][Next]_vars

----------------------------------------------------------------------------
(* The streak $reduce on its own: one user's active days, scanned in order *)

MaxStreakDay == 8

InitStreak ==
    /\ HandlerIdle
    /\ log = <<>>
    /\ timeZone \in TimeZones
    /\ req = <<>>
    /\ resp = <<>>
    /\ rank = <<>>
    /\ dist = <<>>
    /\ \E S \in SUBSET (1..MaxStreakDay) :
          scan = <<[days |-> S,
                    arr |-> SortAsc({DateTruncDay(timeZone,
                                        LocalToUtc(timeZone, d, 12)) : d \in S}),
                    k |-> 0,
                    value |-> ReduceInit]>>

(* one iteration of $reduce: value := in(value, this) *)
ScanStep ==
    /\ scan # <<>>
    /\ scan[1].k < Len(scan[1].arr)
    /\ scan' = <<[scan[1] EXCEPT
                    !.k = @ + 1,
                    !.value = ReduceStep(@, scan[1].arr[scan[1].k + 1])]>>
    /\ UNCHANGED <<log, timeZone, req, resp, rank, dist, handlerVars>>

SpecStreak == InitStreak /\ [][ScanStep]_vars

----------------------------------------------------------------------------
(* The $sort / $limit stages on their own: any per-id counts *)

MaxCount == 2

RankIds == {<<97>>, <<65>>, <<97, 98>>, <<97, 97>>, <<98>>, <<66>>, <<99>>}

InitRank ==
    /\ HandlerIdle
    /\ log = <<>>
    /\ timeZone \in TimeZones
    /\ req = <<>>
    /\ resp = <<>>
    /\ scan = <<>>
    /\ dist = <<>>
    /\ \E c \in [RankIds -> 0..MaxCount] :
          rank = <<[rows |-> {[id |-> u, count |-> c[u]] :
                                u \in {v \in RankIds : c[v] > 0}},
                    out |-> <<>>,
                    done |-> FALSE]>>

RankStep ==
    /\ rank # <<>>
    /\ ~rank[1].done
    /\ rank' = <<[rank[1] EXCEPT
                    !.out = SortLimit(rank[1].rows, LeaderboardLimit),
                    !.done = TRUE]>>
    /\ UNCHANGED <<log, timeZone, req, resp, scan, dist, handlerVars>>

SpecRank == InitRank /\ [][RankStep]_vars

----------------------------------------------------------------------------
(* The bucket stages on their own: any per-user day count and longest streak *)

MaxDays == 21

InitBuckets ==
    /\ HandlerIdle
    /\ log = <<>>
    /\ timeZone \in TimeZones
    /\ req = <<>>
    /\ resp = <<>>
    /\ scan = <<>>
    /\ rank = <<>>
    /\ \E days \in [Users -> 0..MaxDays] :
       \E longest \in [Users -> 0..MaxDays] :
          /\ \A u \in Users :
                IF days[u] = 0 THEN longest[u] = 0
                ELSE longest[u] >= 1 /\ longest[u] <= days[u]
          /\ dist = <<[days |-> days, longest |-> longest,
                       retention |-> <<>>, streaks |-> <<>>, done |-> FALSE]>>

Bucketize ==
    /\ dist # <<>>
    /\ ~dist[1].done
    /\ LET active == {u \in Users : dist[1].days[u] > 0}
       IN  dist' = <<[dist[1] EXCEPT
                !.retention = RetentionBuckets(
                    {[id |-> u, count |-> dist[1].days[u]] : u \in active}),
                !.streaks = StreakBuckets(
                    {[id |-> u, count |-> dist[1].longest[u]] : u \in active}),
                !.done = TRUE]>>
    /\ UNCHANGED <<log, timeZone, req, resp, scan, rank, handlerVars>>

SpecBuckets == InitBuckets /\ [][Bucketize]_vars

----------------------------------------------------------------------------
(* Filters block of the payload: counts by lock and date navigation *)

(* Object.fromEntries of $group: { _id: '$lockId', count: { $sum: 1 } } *)
EntryCounts(matched) ==
    [l \in {e.lockId : e \in matched} |->
        Cardinality({e \in matched : e.lockId = l})]

(* the latest entry before the window, and the count of its day or month *)
PreviousDateCounts(docs, tz, w) ==
    LET before == {e \in docs : e.entryTime < w.rangeStart}
    IN  IF w.seasonActive \/ before = {} THEN <<>>
        ELSE LET t == CHOOSE x \in {e.entryTime : e \in before} :
                        \A e \in before : x >= e.entryTime
                 d == DayString(tz, t)
                 prevStart == IF w.period = "month" THEN StartOfMonth(tz, d)
                              ELSE StartOfDay(tz, d)
                 prevEnd == IF w.period = "month" THEN EndOfMonth(tz, d)
                            ELSE EndOfDay(tz, d)
             IN  <<[date |-> prevStart,
                    count |-> Cardinality(InRange(docs, prevStart, prevEnd))]>>

(* the earliest entry after the window, and the count of its day or month *)
NextDateCounts(docs, tz, w) ==
    LET after == {e \in docs : e.entryTime > w.rangeEnd}
    IN  IF w.seasonActive \/ after = {} THEN <<>>
        ELSE LET t == CHOOSE x \in {e.entryTime : e \in after} :
                        \A e \in after : x <= e.entryTime
                 d == DayString(tz, t)
                 nextStart == IF w.period = "month" THEN StartOfMonth(tz, d)
                              ELSE StartOfDay(tz, d)
                 nextEnd == IF w.period = "month" THEN EndOfMonth(tz, d)
                            ELSE EndOfDay(tz, d)
             IN  <<[date |-> nextStart,
                    count |-> Cardinality(InRange(docs, nextStart, nextEnd))]>>

Filters(docs, tz, w, r, matched) ==
    [entryCounts |-> EntryCounts(matched),
     date |-> <<w.rangeStart>>,
     previousDateCounts |-> PreviousDateCounts(docs, tz, w),
     nextDateCounts |-> NextDateCounts(docs, tz, w),
     period |-> w.period,
     season |-> IF ActiveSeason(r) # {}
                THEN (CHOOSE x \in ActiveSeason(r) : TRUE).key
                ELSE NoFilter]

(* the catch block: status 500 and none of the payload keys *)
ErrorResponse == [status |-> 500, error |-> "Failed to fetch entries"]

(* what a request whose window is made of an Invalid Date is answered with, *)
(* had the store compared the Invalid Date instead of refusing it: nothing  *)
(* matches, and the date of the filters block serialises to null            *)
NoMatchView(r) ==
    [status |-> 200,
     rangeStart |-> <<>>,
     rangeEnd |-> <<>>,
     total |-> 0,
     filters |-> [entryCounts |-> EntryCounts({}), date |-> <<>>,
                  previousDateCounts |-> <<>>, nextDateCounts |-> <<>>,
                  period |-> r.period, season |-> NoFilter],
     dayAggregates |-> DayAggregates({}, "UTC", r.period)]

(* the window, the filters block and the range summary of the response *)
WindowView(lg, tz, r) ==
    LET w == Window(tz, r)
        docs == Docs(lg)
        matched == Query(docs, w, r)
    IN  [status |-> 200,
         rangeStart |-> <<w.rangeStart>>,
         rangeEnd |-> <<w.rangeEnd>>,
         total |-> Cardinality(matched),
         filters |-> Filters(docs, tz, w, r, matched),
         dayAggregates |-> DayAggregates(matched, tz, w.period)]

(* the responses the handler can give: an Invalid Date in the query is    *)
(* refused by the store (the find rejects, the catch block answers) or    *)
(* compared and matches nothing                                           *)
WindowResponses(lg, tz, r) ==
    IF WindowIsInvalid(r) THEN {ErrorResponse, NoMatchView(r)}
    ELSE {WindowView(lg, tz, r)}

----------------------------------------------------------------------------
(* The window resolver in the handler: every period, date form and season *)

MaxEvents == 2

AllPeriods == {"day", "month", "last7", "last30", "mtd"}

(* the season parameter: missing, "S1", "s1" and the unknown "z" *)
SeasonParams == {NoFilter, <<83, 49>>, <<115, 49>>, <<122>>}

WindowRequests ==
    [period : AllPeriods,
     date : {AbsentDate, UnparseableDate} \cup (1..NDays),
     lockId : {NoFilter}, userId : {NoFilter},
     season : SeasonParams,
     now : {LocalToUtc(tz, d, 12) : tz \in TimeZones, d \in 1..NDays}]

(* entries of one user at noon of the days 1..NDays, on either lock *)
WindowEntries(tz) ==
    [username : {UserA}, lockId : Locks,
     entryTime : {LocalToUtc(tz, d, 12) : d \in 1..NDays}]

LogsUpTo(entries, n) == UNION {[1..k -> entries] : k \in 0..n}

InitWindow ==
    /\ HandlerIdle
    /\ timeZone \in TimeZones
    /\ log \in LogsUpTo(WindowEntries(timeZone), MaxEvents)
    /\ req = <<>>
    /\ resp = <<>>
    /\ scan = <<>>
    /\ rank = <<>>
    /\ dist = <<>>

(* GET /api with any period, date and season parameter *)
GETWindow ==
    /\ req = <<>>
    /\ \E r \in WindowRequests :
          /\ r.now \in {LocalToUtc(timeZone, d, 12) : d \in 1..NDays}
          /\ req' = <<r>>
          /\ \E out \in WindowResponses(log, timeZone, r) : resp' = <<out>>
    /\ UNCHANGED <<log, timeZone, scan, rank, dist, handlerVars>>

SpecWindow == InitWindow /\ [][GETWindow]_vars

----------------------------------------------------------------------------
(* The token-bucket rate limiter (lib/rateLimit.js).                       *)
(* The clock counts seconds.  Tokens are counted in units of 1/60 token,   *)
(* so that the refill rate perMin / 60 tokens per second is perMin units   *)
(* per second and every product elapsed * refillPerSec is exact.           *)

TokenUnits == 60

(* `${route}:${ip}` *)
RateKeys == {"api:1.2.3.4", "api:5.6.7.8"}

CeilDiv(a, b) == (a + b - 1) \div b

(* what a division by a zero rate gives *)
Infinity == "Infinity"

(* resetSec: 1 / refillPerSec *)
ResetSec(conf) ==
    IF conf.refillPerSec = 0 THEN Infinity
    ELSE TokenUnits \div conf.refillPerSec

(* Math.ceil(missing / refillPerSec), missing = 1 - b.tokens being positive *)
RetryAfter(b, conf) ==
    IF conf.refillPerSec = 0 THEN Infinity
    ELSE CeilDiv(TokenUnits - b.tokens, conf.refillPerSec)

(* variant: b.tokens + refill without Math.min(capacity, ...) *)
RefillUncapped(b, conf, t) ==
    [tokens |-> b.tokens + (t - b.updatedAt) * conf.refillPerSec,
     updatedAt |-> t]

(* variant: an existing bucket is never refilled *)
RefillNever(b, conf, t) == [tokens |-> b.tokens, updatedAt |-> t]

(* b.tokens = Math.min(capacity, b.tokens + elapsed * refillPerSec) *)
Refill(b, conf, t) ==
    [tokens |-> Min(conf.capacity * TokenUnits,
                    b.tokens + (t - b.updatedAt) * conf.refillPerSec),
     updatedAt |-> t]

(* variant: every key is served from one bucket *)
RateLimitConsumeShared(bk, key, conf, t) ==
    LET b == IF DOMAIN bk # {}
             THEN Refill(bk[CHOOSE k \in DOMAIN bk : TRUE], conf, t)
             ELSE [tokens |-> conf.capacity * TokenUnits, updatedAt |-> t]
        ok == b.tokens >= TokenUnits
        nb == IF ok THEN [b EXCEPT !.tokens = @ - TokenUnits] ELSE b
    IN  [buckets |-> [k \in RateKeys |-> nb],
         result |->
            IF ok THEN [ok |-> TRUE, remaining |-> nb.tokens \div TokenUnits,
                        resetSec |-> ResetSec(conf)]
            ELSE [ok |-> FALSE, remaining |-> 0,
                  retryAfter |-> RetryAfter(b, conf)]]

(* rateLimitConsume(key, { capacity, refillPerSec }) at time t: the Map *)
(* after the call and the object returned                               *)
RateLimitConsume(bk, key, conf, t) ==
    LET b == IF key \in DOMAIN bk THEN Refill(bk[key], conf, t)
             ELSE [tokens |-> conf.capacity * TokenUnits, updatedAt |-> t]
        ok == b.tokens >= TokenUnits
        nb == IF ok THEN [b EXCEPT !.tokens = @ - TokenUnits] ELSE b
    IN  [buckets |-> [k \in DOMAIN bk \cup {key} |->
                        IF k = key THEN nb ELSE bk[k]],
         result |->
            IF ok THEN [ok |-> TRUE, remaining |-> nb.tokens \div TokenUnits,
                        resetSec |-> ResetSec(conf)]
            ELSE [ok |-> FALSE, remaining |-> 0,
                  retryAfter |-> RetryAfter(b, conf)]]

(* The limiter on its own: calls on two keys while the clock advances *)

MaxCapacity == 2
MaxCalls == 4
MaxClock == 4

(* capacities 1..MaxCapacity, refill rates 1/4, 1/2 and 1 token per second *)
RateConfigs == [capacity : 1..MaxCapacity, refillPerSec : {15, 30, 60}]

CallsMade == Len(hist[1].calls["api:1.2.3.4"]) + Len(hist[1].calls["api:5.6.7.8"])

InitRate ==
    /\ log = <<>>
    /\ timeZone = "UTC"
    /\ req = <<>>
    /\ resp = <<>>
    /\ scan = <<>>
    /\ rank = <<>>
    /\ dist = <<>>
    /\ call = <<>>
    /\ buckets = <<>>
    /\ clock = 0
    /\ \E c \in RateConfigs :
          hist = <<[conf |-> c, calls |-> [k \in RateKeys |-> <<>>]]>>

(* one call of rateLimitConsume *)
Consume ==
    /\ hist # <<>>
    /\ CallsMade < MaxCalls
    /\ \E key \in RateKeys :
          LET out == RateLimitConsume(buckets, key, hist[1].conf, clock)
          IN  /\ buckets' = out.buckets
              /\ hist' = <<[hist[1] EXCEPT !.calls[key] =
                              Append(@, [at |-> clock,
                                         ok |-> out.result.ok,
                                         left |-> out.buckets[key].tokens])]>>
    /\ UNCHANGED <<log, timeZone, req, resp, scan, rank, dist, call, clock>>

(* a second passes *)
Tick ==
    /\ hist # <<>>
    /\ clock < MaxClock
    /\ clock' = clock + 1
    /\ UNCHANGED <<log, timeZone, req, resp, scan, rank, dist, call, buckets, hist>>

NextRate == Consume \/ Tick

SpecRate == InitRate /\ [][NextRate]_vars

(* The limiter under any config: capacities from 0, and the rates 0, 1/4 *)
(* and 1 token per second                                                *)
AnyRateConfigs == [capacity : 0..MaxCapacity, refillPerSec : {0, 15, 60}]

InitRateAny ==
    /\ log = <<>>
    /\ timeZone = "UTC"
    /\ req = <<>>
    /\ resp = <<>>
    /\ scan = <<>>
    /\ rank = <<>>
    /\ dist = <<>>
    /\ call = <<>>
    /\ buckets = <<>>
    /\ clock = 0
    /\ \E c \in AnyRateConfigs :
          hist = <<[conf |-> c, calls |-> [k \in RateKeys |-> <<>>]]>>

SpecRateAny == InitRateAny /\ [][NextRate]_vars

----------------------------------------------------------------------------
(* The paginated entry list *)

DefaultPage == 1
DefaultLimit == 50

(* .sort({ entryTime: -1, _id: -1 }) *)
RECURSIVE SortEntries(_)
SortEntries(docs) ==
    IF docs = {} THEN <<>>
    ELSE LET top == CHOOSE e \in docs : \A f \in docs \ {e} :
                        \/ e.entryTime > f.entryTime
                        \/ e.entryTime = f.entryTime /\ e.id > f.id
         IN  <<top>> \o SortEntries(docs \ {top})

(* variant: skip(page * limit), the first page is never returned *)
FindEntriesSkipsPage(matched, page, limit) ==
    LET sorted == SortEntries(matched)
    IN  SubSeq(sorted, page * limit + 1, Min((page + 1) * limit, Len(sorted)))

(* Entry.find(query).sort(...).skip((page - 1) * limit).limit(limit) *)
FindEntries(matched, page, limit) ==
    LET sorted == SortEntries(matched)
    IN  SubSeq(sorted, (page - 1) * limit + 1, Min(page * limit, Len(sorted)))

Pagination(total, page, limit) ==
    [total |-> total, page |-> page, limit |-> limit,
     totalPages |-> CeilDiv(total, limit)]

----------------------------------------------------------------------------
(* The handler read by read: the rate limit gate, then the store          *)
(* operations one after the other, while entries keep arriving            *)

PerMin == 2
MaxArrivals == 2

(* getRateLimitConfig(): capacity perMin tokens, perMin / 60 tokens per second *)
GetRateLimitConfig == [capacity |-> PerMin, refillPerSec |-> PerMin]

(* the store operations of a day request without user and season, in the *)
(* order in which the handler awaits them                                *)
StoreOps ==
    <<"connect", "find_entries", "count_total", "distinct_lockIds",
      "agg_counts_by_lock", "find_prev_date", "find_next_date",
      "agg_achievements", "agg_leaderboards", "agg_analytics",
      "agg_cohorts", "agg_global_leaderboards">>

HandlerRequest ==
    [period |-> "day", date |-> 1, lockId |-> NoFilter, userId |-> NoFilter,
     season |-> NoFilter, page |-> DefaultPage, limit |-> DefaultLimit]

NothingRead ==
    [entries |-> <<>>, total |-> <<>>, entryCounts |-> <<>>,
     dayAggregates |-> <<>>]

(* what the operation op returns when it reads the collection lg *)
ReadInto(got, op, lg, tz, r) ==
    LET w == Window(tz, r)
        matched == Query(Docs(lg), w, r)
    IN  IF op = "find_entries"
        THEN [got EXCEPT !.entries = <<FindEntries(matched, r.page, r.limit)>>]
        ELSE IF op = "count_total"
        THEN [got EXCEPT !.total = <<Cardinality(matched)>>]
        ELSE IF op = "agg_counts_by_lock"
        THEN [got EXCEPT !.entryCounts = <<EntryCounts(matched)>>]
        ELSE IF op = "agg_achievements"
        THEN [got EXCEPT !.dayAggregates = <<DayAggregates(matched, tz, w.period)>>]
        ELSE got

(* NextResponse.json({ entries, pagination, filters, dayAggregates, ... }) *)
OkResponse(got, r) ==
    [status |-> 200,
     headers |-> [h \in {"X-Request-ID"} |-> "reqId"],
     body |-> [entries |-> got.entries[1],
               pagination |-> Pagination(got.total[1], r.page, r.limit),
               filters |-> [entryCounts |-> got.entryCounts[1]],
               dayAggregates |->
                  [got.dayAggregates[1] EXCEPT !.totalEntries = got.total[1]]]]

(* the catch block *)
FailedResponse(op) ==
    [status |-> 500,
     headers |-> [h \in {"X-Request-ID"} |-> "reqId"],
     body |-> [error |-> "Failed to fetch entries", details |-> op]]

(* the early return of the rate limit gate *)
TooManyRequests(rl) ==
    [status |-> 429,
     headers |-> [h \in {"Retry-After", "X-Request-ID"} |->
                    IF h = "Retry-After" THEN ToString(rl.retryAfter)
                    ELSE "reqId"],
     body |-> [error |-> "Too Many Requests"]]

(* variant: the store is connected before the limiter's answer is looked at *)
BeginConnectsFirst(r, rl) ==
    [r |-> r, rl |-> rl, pc |-> 2, ops |-> <<"connect">>, got |-> NothingRead,
     failed |-> "",
     resp |-> IF rl.ok THEN <<>> ELSE <<TooManyRequests(rl)>>]

(* the invocation after the gate: answered at once when the key is denied *)
Begin(r, rl) ==
    [r |-> r, rl |-> rl, pc |-> 1, ops |-> <<>>, got |-> NothingRead,
     failed |-> "",
     resp |-> IF rl.ok THEN <<>> ELSE <<TooManyRequests(rl)>>]

(* variant: a failed read is tried once more before the catch block answers *)
CaughtAndRetried(c, op) ==
    [c EXCEPT !.ops = Append(@, op), !.failed = op,
              !.resp = IF \E i \in 1..Len(c.ops) : c.ops[i] = op
                       THEN <<FailedResponse(op)>>
                       ELSE <<>>]

(* the operation op throws: timed rethrows, the catch block answers *)
Caught(c, op) ==
    [c EXCEPT !.ops = Append(@, op), !.failed = op,
              !.resp = <<FailedResponse(op)>>]

InitHandler ==
    /\ log = <<>>
    /\ timeZone \in TimeZones
    /\ req = <<>>
    /\ resp = <<>>
    /\ scan = <<>>
    /\ rank = <<>>
    /\ dist = <<>>
    /\ call = <<>>
    /\ buckets = <<>>
    /\ clock = 0
    /\ hist = <<>>

(* an entry is ingested, also while a request is being answered *)
Arrive ==
    /\ Len(log) < MaxArrivals
    /\ \E u \in Users :
          log' = Append(log, [username |-> u, lockId |-> PRIMARY_LOCK,
                              entryTime |-> LocalToUtc(timeZone, 1, 7)])
    /\ UNCHANGED <<timeZone, req, resp, scan, rank, dist, call, buckets, clock, hist>>

(* GET /api arrives: rateLimitConsume, then either the 429 or the try block *)
Gate ==
    /\ call = <<>>
    /\ LET out == RateLimitConsume(buckets, "api:1.2.3.4", GetRateLimitConfig,
                                   clock)
       IN  /\ buckets' = out.buckets
           /\ call' = <<Begin(HandlerRequest, out.result)>>
    /\ UNCHANGED <<log, timeZone, req, resp, scan, rank, dist, clock, hist>>

(* the next store operation returns; after the last one the payload is built *)
ReadOk ==
    /\ call # <<>>
    /\ call[1].resp = <<>>
    /\ LET c == call[1]
           op == StoreOps[c.pc]
           got == ReadInto(c.got, op, log, timeZone, c.r)
       IN  call' = <<[c EXCEPT !.ops = Append(@, op), !.got = got,
                               !.pc = @ + 1,
                               !.resp = IF c.pc = Len(StoreOps)
                                        THEN <<OkResponse(got, c.r)>>
                                        ELSE <<>>]>>
    /\ UNCHANGED <<log, timeZone, req, resp, scan, rank, dist, buckets, clock, hist>>

(* the next store operation fails *)
ReadFails ==
    /\ call # <<>>
    /\ call[1].resp = <<>>
    /\ call' = <<Caught(call[1], StoreOps[call[1].pc])>>
    /\ UNCHANGED <<log, timeZone, req, resp, scan, rank, dist, buckets, clock, hist>>

(* the response is returned *)
Return ==
    /\ call # <<>>
    /\ call[1].resp # <<>>
    /\ call' = <<>>
    /\ UNCHANGED <<log, timeZone, req, resp, scan, rank, dist, buckets, clock, hist>>

NextHandler == Arrive \/ Gate \/ ReadOk \/ ReadFails \/ Return

SpecHandler == InitHandler /\ [][NextHandler]_vars

----------------------------------------------------------------------------
(* The entry list page by page: entries sharing timestamps, any page, limit *)

MaxRows == 4
MaxPage == 3
MaxLimit == 3

(* entries of one user: two instants of day 1, used repeatedly, and day 2 *)
PageEntries(tz) ==
    [username : {UserA}, lockId : {PRIMARY_LOCK},
     entryTime : {LocalToUtc(tz, 1, 7), LocalToUtc(tz, 1, 22),
                  LocalToUtc(tz, 2, 8)}]

PageRequests ==
    [period : {"day"}, date : {1}, lockId : {NoFilter}, userId : {NoFilter},
     season : {NoFilter}, page : 1..MaxPage, limit : 1..MaxLimit]

(* entries and pagination of the response *)
PageView(lg, tz, r) ==
    LET matched == Query(Docs(lg), Window(tz, r), r)
    IN  [entries |-> FindEntries(matched, r.page, r.limit),
         pagination |-> Pagination(Cardinality(matched), r.page, r.limit)]

InitPages ==
    /\ HandlerIdle
    /\ timeZone \in TimeZones
    /\ log \in LogsUpTo(PageEntries(timeZone), MaxRows)
    /\ req = <<>>
    /\ resp = <<>>
    /\ scan = <<>>
    /\ rank = <<>>
    /\ dist = <<>>

(* GET /api?page=p&limit=L *)
GETPage ==
    /\ req = <<>>
    /\ \E r \in PageRequests :
          /\ req' = <<r>>
          /\ resp' = <<PageView(log, timeZone, r)>>
    /\ UNCHANGED <<log, timeZone, scan, rank, dist, handlerVars>>

SpecPages == InitPages /\ [][GETPage]_vars

----------------------------------------------------------------------------
(* Cohorts: new and returning users per month of the window (agg_cohorts) *)

(* $dateToString %Y-%m with timezone: the local calendar month *)
MonthString(tz, t) == MonthOf(DayString(tz, t))

(* variant: the first month is looked for inside the window only *)
FirstMonthInWindow(docs, tz, w) ==
    LET inRange == OnPrimary(InRange(docs, w.rangeStart, w.rangeEnd))
    IN  [u \in UsersOf(inRange) |->
            CHOOSE m \in {MonthString(tz, e.entryTime) :
                            e \in {f \in inRange : f.username = u}} :
                \A e \in {f \in inRange : f.username = u} :
                    m <= MonthString(tz, e.entryTime)]

(* firstMonthPerUser: the first month of primary-lock activity, all time *)
FirstMonthPerUser(docs, tz, w) ==
    LET primary == OnPrimary(docs)
    IN  [u \in UsersOf(primary) |->
            CHOOSE m \in {MonthString(tz, e.entryTime) :
                            e \in {f \in primary : f.username = u}} :
                \A e \in {f \in primary : f.username = u} :
                    m <= MonthString(tz, e.entryTime)]

(* monthlyDistinctInRange: the users of each month of the window *)
MonthlyDistinctInRange(docs, tz, w) ==
    LET inRange == OnPrimary(InRange(docs, w.rangeStart, w.rangeEnd))
    IN  {[month |-> m,
          users |-> {e.username :
                        e \in {f \in inRange : MonthString(tz, f.entryTime) = m}}] :
            m \in {MonthString(tz, e.entryTime) : e \in inRange}}

(* rows in ascending month order ($sort: { _id: 1 }) *)
RECURSIVE SortByMonth(_)
SortByMonth(rows) ==
    IF rows = {} THEN <<>>
    ELSE LET r == CHOOSE x \in rows : \A y \in rows : x.month <= y.month
         IN  <<r>> \o SortByMonth(rows \ {r})

Max(x, y) == IF x > y THEN x ELSE y

CohortByMonth(docs, tz, w) ==
    LET firstMonthMap == FirstMonthPerUser(docs, tz, w)
        rows == SortByMonth(MonthlyDistinctInRange(docs, tz, w))
    IN  [i \in 1..Len(rows) |->
            LET newCount == Cardinality({u \in rows[i].users :
                                /\ u \in DOMAIN firstMonthMap
                                /\ firstMonthMap[u] = rows[i].month})
            IN  [month |-> rows[i].month,
                 new |-> newCount,
                 returning |-> Max(0, Cardinality(rows[i].users) - newCount)]]

MaxCohortLog == 3

(* entries at noon of the first day of the first two months *)
CohortEntries(tz) ==
    [username : Users, lockId : Locks,
     entryTime : {LocalToUtc(tz, 1, 12), LocalToUtc(tz, DaysPerMonth + 1, 12)}]

(* month and last30 requests, answered at noon of the day the date names *)
CohortRequests(tz) ==
    {[period |-> p, date |-> d, lockId |-> l, userId |-> u,
      season |-> NoFilter, now |-> LocalToUtc(tz, d, 12)] :
        p \in {"month", "last30"}, d \in {1, DaysPerMonth + 1},
        l \in {NoFilter, OtherLock}, u \in {NoFilter, UserA}}

CohortView(lg, tz, r) ==
    [cohortByMonth |-> CohortByMonth(Docs(lg), tz, Window(tz, r))]

InitCohort ==
    /\ HandlerIdle
    /\ timeZone \in TimeZones
    /\ log \in LogsUpTo(CohortEntries(timeZone), MaxCohortLog)
    /\ req = <<>>
    /\ resp = <<>>
    /\ scan = <<>>
    /\ rank = <<>>
    /\ dist = <<>>

(* GET /api, the cohort part of its analytics *)
GETCohort ==
    /\ req = <<>>
    /\ \E r \in CohortRequests(timeZone) :
          /\ req' = <<r>>
          /\ resp' = <<CohortView(log, timeZone, r)>>
    /\ UNCHANGED <<log, timeZone, scan, rank, dist, handlerVars>>

SpecCohort == InitCohort /\ [][GETCohort]_vars

----------------------------------------------------------------------------
(* Season progress: the level thresholds.  The for loop over levels is    *)
(* run iteration by iteration.                                            *)

Levels ==
    <<[level |-> 1, at |-> 1], [level |-> 2, at |-> 5],
      [level |-> 3, at |-> 10], [level |-> 4, at |-> 20],
      [level |-> 5, at |-> 30]>>

(* let currentLevel = 0; let nextAt = null; the loop about to start *)
LevelInit(points) ==
    [points |-> points, i |-> 1, currentLevel |-> 0, nextAt |-> <<>>,
     broke |-> FALSE]

(* the loop is over: every level was visited, or the break was taken *)
LevelDone(s) == s.broke \/ s.i > Len(Levels)

(* variant: a level is reached only above its threshold *)
LevelStepAbove(s) ==
    LET l == Levels[s.i]
    IN  IF s.points > l.at
        THEN [s EXCEPT !.currentLevel = l.level, !.i = @ + 1]
        ELSE [s EXCEPT !.nextAt = <<l.at>>, !.broke = TRUE]

(* if (points >= l.at) currentLevel = l.level; else { nextAt = l.at; break; } *)
LevelStep(s) ==
    LET l == Levels[s.i]
    IN  IF s.points >= l.at
        THEN [s EXCEPT !.currentLevel = l.level, !.i = @ + 1]
        ELSE [s EXCEPT !.nextAt = <<l.at>>, !.broke = TRUE]

RECURSIVE LevelLoop(_)
LevelLoop(s) == IF LevelDone(s) THEN s ELSE LevelLoop(LevelStep(s))

(* level and nextLevelAt of userSeasonProgress; if (!nextAt) nextAt = null *)
LevelOf(points) ==
    LET s == LevelLoop(LevelInit(points))
    IN  [level |-> s.currentLevel,
         nextLevelAt |-> IF s.nextAt = <<>> \/ s.nextAt = <<0>> THEN <<>>
                         ELSE s.nextAt]

MaxPoints == 31

InitLevels ==
    /\ HandlerIdle
    /\ log = <<>>
    /\ timeZone = "UTC"
    /\ req = <<>>
    /\ resp = <<>>
    /\ \E p \in 0..MaxPoints : scan = <<LevelInit(p)>>
    /\ rank = <<>>
    /\ dist = <<>>

(* one iteration of the loop *)
LevelIterate ==
    /\ scan # <<>>
    /\ ~LevelDone(scan[1])
    /\ scan' = <<LevelStep(scan[1])>>
    /\ UNCHANGED <<log, timeZone, req, resp, rank, dist, handlerVars>>

SpecLevels == InitLevels /\ [][LevelIterate]_vars

----------------------------------------------------------------------------
(* Season progress of one user (userSeasonProgress) *)

(* agg_season_standings, mapped to { user, points } *)
Standings(docs, tz, w) ==
    LET rows == SortRows(DistinctDayCounts(
                    OnPrimary(InRange(docs, w.rangeStart, w.rangeEnd)), tz))
    IN  [i \in 1..Len(rows) |-> [user |-> rows[i].id, points |-> rows[i].count]]

(* standings.find(s => s.user.toLowerCase() === userId.toLowerCase()): *)
(* the index of the first such row, or nothing                          *)
Target(standings, userId) ==
    LET hits == {i \in 1..Len(standings) :
                    ToLower(standings[i].user) = ToLower(userId)}
    IN  IF hits = {} THEN <<>>
        ELSE <<CHOOSE i \in hits : \A j \in hits : i <= j>>

(* standings.findIndex(s => s.user === target.user) + 1 *)
FindIndexPlusOne(standings, user) ==
    LET hits == {i \in 1..Len(standings) : standings[i].user = user}
    IN  CHOOSE i \in hits : \A j \in hits : i <= j

(* agg_season_streak_user: the $reduce value, or nothing without entries *)
SeasonStreak(docs, tz, w, userId) ==
    LET mine == UserFilter(
                    OnPrimary(InRange(docs, w.rangeStart, w.rangeEnd)), userId)
        days == SortAsc({DateTruncDay(tz, e.entryTime) : e \in mine})
    IN  IF mine = {} THEN <<>> ELSE <<StreakReduce(days)>>

(* userSeasonProgress: null without an active season or without userId *)
UserSeasonProgress(docs, tz, w, r) ==
    IF ~w.seasonActive \/ r.userId = NoFilter THEN <<>>
    ELSE LET standings == Standings(docs, tz, w)
             target == Target(standings, r.userId)
             points == IF target = <<>> THEN 0 ELSE standings[target[1]].points
             place == IF target = <<>> THEN <<>>
                     ELSE <<FindIndexPlusOne(standings,
                                             standings[target[1]].user)>>
             streakAgg == SeasonStreak(docs, tz, w, r.userId)
             streakObj == IF streakAgg = <<>> THEN [curr |-> 0, best |-> 0]
                          ELSE streakAgg[1]
             lv == LevelOf(points)
         IN  <<[season |-> (CHOOSE s \in ActiveSeason(r) : TRUE).key,
                points |-> points,
                rank |-> place,
                currentStreakDays |-> streakObj.curr,
                longestStreakDays |-> streakObj.best,
                level |-> lv.level,
                nextLevelAt |-> lv.nextLevelAt]>>

MaxSeasonLog == 2

(* the usernames "A", "a" and "b" *)
SeasonUsers == {<<65>>, UserA, UserB}

(* entries at noon of the day before the season and of its two days *)
SeasonEntries(tz) ==
    [username : SeasonUsers, lockId : Locks,
     entryTime : {LocalToUtc(tz, d, 12) : d \in {1, 2, 3}}]

(* requests with and without the season "S1" and a userId *)
SeasonRequests ==
    [period : {"day"}, date : {1}, lockId : {NoFilter},
     userId : {NoFilter} \cup SeasonUsers,
     season : {NoFilter, <<83, 49>>}]

SeasonView(lg, tz, r) ==
    [userSeasonProgress |->
        UserSeasonProgress(Docs(lg), tz, Window(tz, r), r)]

InitSeason ==
    /\ HandlerIdle
    /\ timeZone \in TimeZones
    /\ log \in LogsUpTo(SeasonEntries(timeZone), MaxSeasonLog)
    /\ req = <<>>
    /\ resp = <<>>
    /\ scan = <<>>
    /\ rank = <<>>
    /\ dist = <<>>

(* GET /api, the season progress part of its payload *)
GETSeason ==
    /\ req = <<>>
    /\ \E r \in SeasonRequests :
          /\ req' = <<r>>
          /\ resp' = <<SeasonView(log, timeZone, r)>>
    /\ UNCHANGED <<log, timeZone, scan, rank, dist, handlerVars>>

SpecSeason == InitSeason /\ [][GETSeason]_vars

----------------------------------------------------------------------------
(* The lifetime profile of one user (userProfile) *)

(* $hour without a timezone argument: the hour of the instant in UTC *)
HourUtc(t) == t % 24

(* the stats facet: $group _id null over every entry of the user *)
ProfileStats(mine) ==
    IF mine = {} THEN <<>>
    ELSE <<[first |-> CHOOSE t \in {e.entryTime : e \in mine} :
                        \A e \in mine : t <= e.entryTime,
            last |-> CHOOSE t \in {e.entryTime : e \in mine} :
                        \A e \in mine : t >= e.entryTime,
            uniqueLocks |-> Cardinality({e.lockId : e \in mine}),
            early |-> Cardinality({e \in mine :
                                    HourUtc(e.entryTime) < EarlyHour}),
            night |-> Cardinality({e \in mine :
                                    HourUtc(e.entryTime) >= LateHour})]>>

(* visitsDaysPrimary: $dateTrunc day, $group, $count *)
VisitsDaysPrimary(mine, tz) ==
    Cardinality({DateTruncDay(tz, e.entryTime) : e \in OnPrimary(mine)})

(* variant: the trailing window is not applied *)
Recent30DaysLifetime(mine, tz, now) == VisitsDaysPrimary(mine, tz)

(* recent30DaysPrimary: entryTime >= now - 30 days, then the same count *)
Recent30DaysPrimary(mine, tz, now) ==
    VisitsDaysPrimary({e \in mine : e.entryTime >= now - 30 * DayMs}, tz)

(* the longestStreak facet of the profile *)
LifetimeStreak(mine, tz) ==
    StreakReduce(SortAsc({DateTruncDay(tz, e.entryTime) :
                            e \in OnPrimary(mine)})).best

(* the keys pushed to achievements, in the order of the if statements *)
Achievements(total, early, night, recent30) ==
    (IF total >= 10 THEN <<"milestone_10">> ELSE <<>>)
    \o (IF total >= 50 THEN <<"milestone_50">> ELSE <<>>)
    \o (IF total >= 100 THEN <<"milestone_100">> ELSE <<>>)
    \o (IF early THEN <<"early_bird">> ELSE <<>>)
    \o (IF night THEN <<"night_owl">> ELSE <<>>)
    \o (IF recent30 >= 5 THEN <<"active_month">> ELSE <<>>)

(* userProfile: null without userId or without any entry of the user *)
UserProfile(docs, tz, now, userId) ==
    IF userId = NoFilter THEN <<>>
    ELSE LET mine == UserFilter(docs, userId)
             stats == ProfileStats(mine)
             sample == CHOOSE e \in mine : \A f \in mine : e.id <= f.id
             total == VisitsDaysPrimary(mine, tz)
         IN  IF stats = <<>> THEN <<>>
             ELSE <<[username |-> sample.username,
                     totalEntriesAllTime |-> total,
                     uniqueLocks |-> stats[1].uniqueLocks,
                     firstSeen |-> stats[1].first,
                     lastSeen |-> stats[1].last,
                     longestStreakDays |-> LifetimeStreak(mine, tz),
                     achievements |->
                        Achievements(total, stats[1].early > 0,
                                     stats[1].night > 0,
                                     Recent30DaysPrimary(mine, tz, now))]>>

MaxVisits == 101

(* one entry of "a" on the primary lock at noon of each of the days 1..k *)
VisitLog(tz, k) ==
    [d \in 1..k |-> [username |-> UserA, lockId |-> PRIMARY_LOCK,
                     entryTime |-> LocalToUtc(tz, d, 12)]]

(* an entry of "A", "a" or "b" on day 0, at 07:00, 09:00 or 22:00 *)
EarlierEntries(tz) ==
    [username : SeasonUsers, lockId : Locks,
     entryTime : {LocalToUtc(tz, 0, h) : h \in {7, 9, 22}}]

(* days between the last entry and the request *)
IdleDays == {1, 26, 27}

(* the local day of the latest entry of the log *)
LastDay(lg, tz) ==
    IF lg = <<>> THEN 0
    ELSE DayString(tz, lg[Len(lg)].entryTime)

ProfileRequests(lg, tz) ==
    [period : {"day"}, date : {AbsentDate}, lockId : {NoFilter},
     userId : {NoFilter, UserA, UserB}, season : {NoFilter},
     now : {LocalToUtc(tz, LastDay(lg, tz) + j, 12) : j \in IdleDays}]

ProfileView(lg, tz, r) ==
    [userProfile |-> UserProfile(Docs(lg), tz, r.now, r.userId)]

InitProfile ==
    /\ HandlerIdle
    /\ timeZone \in TimeZones
    /\ \E k \in 0..MaxVisits :
       \E x \in LogsUpTo(EarlierEntries(timeZone), 1) :
          log = x \o VisitLog(timeZone, k)
    /\ req = <<>>
    /\ resp = <<>>
    /\ scan = <<>>
    /\ rank = <<>>
    /\ dist = <<>>

(* GET /api?userId=..., the profile part of its payload *)
GETProfile ==
    /\ req = <<>>
    /\ \E r \in ProfileRequests(log, timeZone) :
          /\ req' = <<r>>
          /\ resp' = <<ProfileView(log, timeZone, r)>>
    /\ UNCHANGED <<log, timeZone, scan, rank, dist, handlerVars>>

SpecProfile == InitProfile /\ [][GETProfile]_vars

----------------------------------------------------------------------------
(* The username filter of the query, for userId parameters and stored     *)
(* usernames made of letters, spaces and pattern characters               *)

MaxNameLen == 2

(* a, A, b, the space, and the pattern characters . * \ | *)
NameChars == {97, 65, 98, 32, 46, 42, 92, 124}

Names == UNION {[1..k -> NameChars] : k \in 0..MaxNameLen}

(* the request with the userId parameter param *)
MatchRequest(param) ==
    [period |-> "day", date |-> 1, lockId |-> NoFilter,
     userId |-> Trim(param), season |-> NoFilter, param |-> param]

(* entries and pagination.total of the response *)
MatchView(lg, tz, r) ==
    LET matched == Query(Docs(lg), Window(tz, r), r)
    IN  [entries |-> FindEntries(matched, DefaultPage, DefaultLimit),
         total |-> Cardinality(matched)]

InitMatch ==
    /\ HandlerIdle
    /\ timeZone = "UTC"
    /\ \E n \in Names :
          log = <<[username |-> n, lockId |-> PRIMARY_LOCK,
                   entryTime |-> LocalToUtc(timeZone, 1, 12)]>>
    /\ req = <<>>
    /\ resp = <<>>
    /\ scan = <<>>
    /\ rank = <<>>
    /\ dist = <<>>

(* GET /api?date=...&userId=param *)
GETMatch ==
    /\ req = <<>>
    /\ \E param \in Names :
          /\ req' = <<MatchRequest(param)>>
          /\ resp' = <<MatchView(log, timeZone, MatchRequest(param))>>
    /\ UNCHANGED <<log, timeZone, scan, rank, dist, handlerVars>>

SpecMatch == InitMatch /\ [][GETMatch]_vars

----------------------------------------------------------------------------
(* Range summary of a page of entries (computeAchievements) *)

Unknown == <<117, 110, 107, 110, 111, 119, 110>>

(* a field that is set and is not the empty string *)
Truthy(field) == field # <<>> /\ field[1] # <<>>

(* e.userId || e.username || 'unknown' *)
EntryUser(e) ==
    IF Truthy(e.userId) THEN e.userId[1]
    ELSE IF Truthy(e.username) THEN e.username[1]
    ELSE Unknown

(* a Map as the sequence of its <<key, count>> pairs in insertion order *)
MapHas(m, k) == \E i \in 1..Len(m) : m[i][1] = k

(* m.set(k, (m.get(k) || 0) + 1): a known key keeps its place *)
MapIncr(m, k) ==
    IF MapHas(m, k)
    THEN [i \in 1..Len(m) |-> IF m[i][1] = k THEN <<k, m[i][2] + 1>> ELSE m[i]]
    ELSE Append(m, <<k, 1>>)

Counters0 ==
    [userCounts |-> <<>>, lockCounts |-> <<>>, hourCounts |-> <<>>,
     first |-> <<>>, last |-> <<>>]

(* one pass of for (const e of entries) *)
CountEntry(c, e, tz) ==
    LET withUser == [c EXCEPT !.userCounts = MapIncr(@, EntryUser(e))]
        withLock == IF Truthy(e.lockId)
                    THEN [withUser EXCEPT !.lockCounts = MapIncr(@, e.lockId[1])]
                    ELSE withUser
    IN  IF e.entryTime = <<>> THEN withLock
        ELSE LET t == e.entryTime[1]
             IN  [withLock EXCEPT
                    !.first = IF @ = <<>> \/ t < @[1] THEN <<t>> ELSE @,
                    !.last = IF @ = <<>> \/ t > @[1] THEN <<t>> ELSE @,
                    !.hourCounts = MapIncr(@, HourOf(tz, t))]

RECURSIVE CountEntries(_, _, _, _)
CountEntries(c, entries, i, tz) ==
    IF i > Len(entries) THEN c
    ELSE CountEntries(CountEntry(c, entries[i], tz), entries, i + 1, tz)

ReplacesOnTie(c, maxC) == c >= maxC

(* if (c > maxC) *)
Replaces(c, maxC) == c > maxC

(* let maxK = null, maxC = -1; for (const [k, c] of m) ... *)
RECURSIVE MaxLoop(_, _, _, _)
MaxLoop(m, i, maxK, maxC) ==
    IF i > Len(m) THEN [key |-> maxK, count |-> maxC]
    ELSE IF Replaces(m[i][2], maxC)
         THEN MaxLoop(m, i + 1, <<m[i][1]>>, m[i][2])
         ELSE MaxLoop(m, i + 1, maxK, maxC)

MaxOf(m) == MaxLoop(m, 1, <<>>, 0 - 1)

ComputeAchievements(entries, tz) ==
    LET c == CountEntries(Counters0, entries, 1, tz)
        u == MaxOf(c.userCounts)
        h == MaxOf(c.hourCounts)
        l == MaxOf(c.lockCounts)
    IN  IF Len(entries) = 0
        THEN [totalEntries |-> 0, uniqueUsers |-> 0, mostActiveUser |-> <<>>,
              firstEntryTime |-> <<>>, lastEntryTime |-> <<>>,
              busiestHour |-> <<>>, mostUsedLock |-> <<>>]
        ELSE [totalEntries |-> Len(entries),
              uniqueUsers |-> Len(c.userCounts),
              mostActiveUser |->
                  IF Len(c.userCounts) > 0
                  THEN <<[id |-> u.key[1], count |-> u.count]>> ELSE <<>>,
              firstEntryTime |-> c.first,
              lastEntryTime |-> c.last,
              busiestHour |->
                  IF Len(c.hourCounts) > 0
                  THEN <<[hour |-> h.key[1], count |-> h.count]>> ELSE <<>>,
              mostUsedLock |->
                  IF Len(c.lockCounts) > 0
                  THEN <<[id |-> l.key[1], count |-> l.count]>> ELSE <<>>]

MaxEntries == 3

(* who an entry names: nobody, a username, or a userId besides a username *)
GivenUsers ==
    {[userId |-> <<>>, username |-> <<>>],
     [userId |-> <<>>, username |-> <<UserA>>],
     [userId |-> <<UserB>>, username |-> <<UserA>>]}

GivenLocks == {<<>>, <<PRIMARY_LOCK>>, <<OtherLock>>}

(* no time, or 09:00 or 10:00 UTC of day 1 *)
GivenTimes == {<<>>, <<DayMs + 9>>, <<DayMs + 10>>}

GivenEntries ==
    {[userId |-> u.userId, username |-> u.username, lockId |-> l, entryTime |-> t] :
        u \in GivenUsers, l \in GivenLocks, t \in GivenTimes}

InitUtils ==
    /\ HandlerIdle
    /\ timeZone \in {"UTC", "Riga"}
    /\ log = <<>>
    /\ \E entries \in LogsUpTo(GivenEntries, MaxEntries) : req = <<entries>>
    /\ resp = <<>>
    /\ scan = <<>>
    /\ rank = <<>>
    /\ dist = <<>>

(* computeAchievements(entries) *)
Summarise ==
    /\ req # <<>>
    /\ resp = <<>>
    /\ resp' = <<ComputeAchievements(req[1], timeZone)>>
    /\ UNCHANGED <<log, timeZone, req, scan, rank, dist, handlerVars>>

SpecUtils == InitUtils /\ [][Summarise]_vars

----------------------------------------------------------------------------
(* Global leaderboards (agg_global_leaderboards) *)

GlobalScopeQuery(docs, matched) == matched

(* Entry.aggregate([{ $facet }]): the pipeline reads the whole collection, *)
(* whatever the query of the request matched                               *)
GlobalScope(docs, matched) == docs

(* the four facets, each behind $match: { lockId: PRIMARY_LOCK } *)
GlobalLeaderboards(docs, tz) ==
    [topUsers |->
        SortLimit(DistinctDayCounts(OnPrimary(docs), tz), LeaderboardLimit),
     topEarlyBirds |->
        SortLimit(EarlyBirdCounts(OnPrimary(docs), tz), LeaderboardLimit),
     topNightOwls |->
        SortLimit(NightOwlCounts(OnPrimary(docs), tz), LeaderboardLimit),
     topLongestStreaks |->
        SortLimit(LongestStreakCounts(OnPrimary(docs), tz), LeaderboardLimit)]

MaxGlobalLog == 2

(* entries of two users on either lock: early on day 1, late on day 2 *)
GlobalEntries(tz) ==
    [username : Users, lockId : Locks,
     entryTime : {LocalToUtc(tz, 1, 7), LocalToUtc(tz, 2, 23)}]

(* requests made on day 2 *)
GlobalRequests(tz) ==
    [period : {"day", "month", "last7"}, date : {AbsentDate, 1},
     lockId : {NoFilter} \cup Locks, userId : {NoFilter, UserA},
     season : {NoFilter} \cup {s.key : s \in SEASONS},
     page : 1..2, limit : 1..2, now : {LocalToUtc(tz, 2, 12)}]

(* the entries, the window's leaderboards and the global leaderboards *)
GlobalView(lg, tz, r) ==
    LET w == Window(tz, r)
        docs == Docs(lg)
        matched == Query(docs, w, r)
    IN  [status |-> 200,
         entries |-> FindEntries(matched, r.page, r.limit),
         total |-> Cardinality(matched),
         leaderboards |-> Leaderboards(docs, tz, w, r.lockId),
         globalLeaderboards |->
            GlobalLeaderboards(GlobalScope(docs, matched), tz)]

InitGlobal ==
    /\ HandlerIdle
    /\ timeZone \in TimeZones
    /\ log \in LogsUpTo(GlobalEntries(timeZone), MaxGlobalLog)
    /\ req = <<>>
    /\ resp = <<>>
    /\ scan = <<>>
    /\ rank = <<>>
    /\ dist = <<>>

(* GET /api with any period, date, season, lockId, userId, page and limit *)
GETGlobal ==
    /\ req = <<>>
    /\ \E r \in GlobalRequests(timeZone) :
          /\ req' = <<r>>
          /\ resp' = <<GlobalView(log, timeZone, r)>>
    /\ UNCHANGED <<log, timeZone, scan, rank, dist, handlerVars>>

SpecGlobal == InitGlobal /\ [][GETGlobal]_vars

----------------------------------------------------------------------------
(* The limiter in the arithmetic of the runtime.  Date.now() counts        *)
(* milliseconds and every number is an IEEE 754 double: a result keeps 53  *)
(* significant binary digits and is rounded to nearest, ties to even.      *)
(* A number below 2^IntBits is written as its binary digits, the most      *)
(* significant first: digit i has the weight 2^(IntBits - i).              *)

SignificandBits == 53
IntBits == 3
FracBits == 64
Width == IntBits + FracBits

(* the digits of a number, listed *)
Digits(f) == SubSeq(f, 1, Width)

(* 2^n mod m, by squaring *)
RECURSIVE Pow2Mod(_, _)
Pow2Mod(n, m) ==
    IF n = 0 THEN 1 % m
    ELSE LET h == Pow2Mod(n \div 2, m)
         IN  (h * h * (IF n % 2 = 1 THEN 2 ELSE 1)) % m

FromInt(n) ==
    Digits([i \in 1..Width |->
              IF i <= IntBits THEN (n \div 2^(IntBits - i)) % 2 ELSE 0])

(* the first Width digits of the quotient n / d, and whether digits follow *)
QuotientDigits(n, d) ==
    Digits([i \in 1..Width |->
              IF i <= IntBits THEN ((n \div d) \div 2^(IntBits - i)) % 2
              ELSE (2 * (((n % d) * Pow2Mod(i - IntBits - 1, d)) % d)) \div d])

QuotientInexact(n, d) == ((n % d) * Pow2Mod(FracBits, d)) % d # 0

(* x plus one unit of the digit p *)
AddUnit(x, p) ==
    LET z == CHOOSE j \in 1..p : x[j] = 0 /\ \A k \in (j + 1)..p : x[k] = 1
    IN  Digits([i \in 1..Width |->
                  IF i = z THEN 1 ELSE IF i > z /\ i <= p THEN 0 ELSE x[i]])

(* the double nearest to the number with the digits x (followed by further *)
(* nonzero digits if inexact), the even one of two equally near            *)
RoundToDouble(x, inexact) ==
    IF \A i \in 1..Width : x[i] = 0 THEN x
    ELSE LET lead == CHOOSE i \in 1..Width :
                        x[i] = 1 /\ \A k \in 1..(i - 1) : x[k] = 0
             last == lead + SignificandBits - 1
         IN  IF last >= Width THEN x
             ELSE LET guard == x[last + 1]
                      tail == inexact \/ \E i \in (last + 2)..Width : x[i] = 1
                      kept == Digits([i \in 1..Width |->
                                        IF i <= last THEN x[i] ELSE 0])
                  IN  IF guard = 1 /\ (tail \/ x[last] = 1)
                      THEN AddUnit(kept, last) ELSE kept

(* a carry enters digit i when a lower digit generates one and every digit *)
(* between passes it on                                                     *)
CarryInto(a, b, i) ==
    \E j \in (i + 1)..Width :
        /\ a[j] = 1 /\ b[j] = 1
        /\ \A k \in (i + 1)..(j - 1) : a[k] + b[k] = 1

BorrowFrom(a, b, i) ==
    \E j \in (i + 1)..Width :
        /\ a[j] < b[j]
        /\ \A k \in (i + 1)..(j - 1) : a[k] = b[k]

(* a + b and a - b (for a >= b) as the runtime computes them *)
DoubleAdd(a, b) ==
    RoundToDouble(
        Digits([i \in 1..Width |->
                  (a[i] + b[i] + (IF CarryInto(a, b, i) THEN 1 ELSE 0)) % 2]),
        FALSE)

DoubleSub(a, b) ==
    RoundToDouble(
        Digits([i \in 1..Width |->
                  (a[i] + b[i] + (IF BorrowFrom(a, b, i) THEN 1 ELSE 0)) % 2]),
        FALSE)

(* n / d for integers n >= 0 and d > 0 *)
DoubleDiv(n, d) == RoundToDouble(QuotientDigits(n, d), QuotientInexact(n, d))

DoubleLess(a, b) ==
    \E i \in 1..Width : a[i] < b[i] /\ \A k \in 1..(i - 1) : a[k] = b[k]

(* Math.min(a, b) *)
DoubleMin(a, b) == IF DoubleLess(b, a) THEN b ELSE a

(* Math.floor(x) and Math.ceil(x) *)
DoubleFloor(x) ==
    CHOOSE n \in 0..(2^IntBits - 1) :
        \A i \in 1..IntBits : x[i] = (n \div 2^(IntBits - i)) % 2

DoubleCeil(x) ==
    IF \E i \in (IntBits + 1)..Width : x[i] = 1
    THEN DoubleFloor(x) + 1 ELSE DoubleFloor(x)

(* x * r and x / r for a rate r of 1 or 2 tokens per second: the digits *)
(* move by one place and none is lost                                    *)
TimesRate(x, r) ==
    IF r = 1 THEN x
    ELSE Digits([i \in 1..Width |-> IF i < Width THEN x[i + 1] ELSE 0])

OverRate(x, r) ==
    IF r = 1 THEN x
    ELSE Digits([i \in 1..Width |-> IF i > 1 THEN x[i - 1] ELSE 0])

(* elapsed = (t - b.updatedAt) / 1000; refill = elapsed * refillPerSec; *)
(* b.tokens = Math.min(capacity, b.tokens + refill); b.updatedAt = t     *)
RefillMs(b, conf, t) ==
    [tokens |-> DoubleMin(FromInt(conf.capacity),
                          DoubleAdd(b.tokens,
                                    TimesRate(DoubleDiv(t - b.updatedAt, 1000),
                                              conf.refillPerSec))),
     updatedAt |-> t]

(* rateLimitConsume(key, { capacity, refillPerSec }) at the millisecond t *)
RateLimitConsumeMs(bk, key, conf, t) ==
    LET b == IF key \in DOMAIN bk THEN RefillMs(bk[key], conf, t)
             ELSE [tokens |-> FromInt(conf.capacity), updatedAt |-> t]
        ok == ~DoubleLess(b.tokens, FromInt(1))
        nb == IF ok THEN [b EXCEPT !.tokens = DoubleSub(@, FromInt(1))] ELSE b
    IN  [buckets |-> [k \in DOMAIN bk \cup {key} |->
                        IF k = key THEN nb ELSE bk[k]],
         result |->
            IF ok THEN [ok |-> TRUE, remaining |-> DoubleFloor(nb.tokens)]
            ELSE [ok |-> FALSE, remaining |-> 0,
                  retryAfter |->
                     DoubleCeil(OverRate(DoubleSub(FromInt(1), b.tokens),
                                         conf.refillPerSec))]]

MaxMsCalls == 5
MaxSteps == 10

(* the milliseconds between two instants at which the model makes calls *)
StepMs == 100

MsConfigs == [capacity : {1, 2}, refillPerSec : {1, 2}]

MsKey == "api:1.2.3.4"

InitRateMs ==
    /\ log = <<>>
    /\ timeZone = "UTC"
    /\ req = <<>>
    /\ resp = <<>>
    /\ scan = <<>>
    /\ rank = <<>>
    /\ dist = <<>>
    /\ call = <<>>
    /\ buckets = <<>>
    /\ clock = 0
    /\ \E c \in MsConfigs : hist = <<[conf |-> c, calls |-> <<>>]>>

(* one call of rateLimitConsume *)
ConsumeMs ==
    /\ hist # <<>>
    /\ Len(hist[1].calls) < MaxMsCalls
    /\ LET out == RateLimitConsumeMs(buckets, MsKey, hist[1].conf, clock)
       IN  /\ buckets' = out.buckets
           /\ hist' = <<[hist[1] EXCEPT !.calls =
                           Append(@, [at |-> clock,
                                      had |-> IF MsKey \in DOMAIN buckets
                                              THEN <<buckets[MsKey].tokens>>
                                              ELSE <<>>,
                                      left |-> out.buckets[MsKey].tokens,
                                      result |-> out.result])]>>
    /\ UNCHANGED <<log, timeZone, req, resp, scan, rank, dist, call, clock>>

(* time passes *)
StepClock ==
    /\ hist # <<>>
    /\ clock < MaxSteps * StepMs
    /\ clock' = clock + StepMs
    /\ UNCHANGED <<log, timeZone, req, resp, scan, rank, dist, call, buckets, hist>>

NextRateMs == ConsumeMs \/ StepClock

SpecRateMs == InitRateMs /\ [][NextRateMs]_vars

----------------------------------------------------------------------------
(* Properties *)

Answered == req # <<>>

Front(lg) == SubSeq(lg, 1, Len(lg) - 1)

CountIn(board, u) ==
    IF \E i \in 1..Len(board) : board[i].id = u
    THEN (board[CHOOSE i \in 1..Len(board) : board[i].id = u]).count
    ELSE 0

RECURSIVE SumOver(_, _)
SumOver(f, K) ==
    IF K = {} THEN 0
    ELSE LET k == CHOOSE x \in K : TRUE IN f[k] + SumOver(f, K \ {k})

(* the events a leaderboard of the answered request is computed from: *)
(* those of the window that pass the lock filter, and in the month or  *)
(* season period only those of the primary lock                        *)
BoardEvents ==
    LET w == Window(timeZone, req[1])
        lb == {e \in Docs(log) :
                /\ e.entryTime >= w.rangeStart
                /\ e.entryTime <= w.rangeEnd
                /\ (req[1].lockId = NoFilter \/ e.lockId = req[1].lockId)}
    IN  IF w.period = "month" THEN {e \in lb : e.lockId = PRIMARY_LOCK} ELSE lb

\* C1: for a fixed log and a fixed month or season window, the leaderboards
\* of the response are the same for every value of the lockId filter
\* (absent, the primary lock, any other lock).
LeaderboardsIgnoreLockFilter ==
    (Answered /\ resp[1].period = "month") =>
        \A l \in {NoFilter} \cup Locks :
            Payload(log, timeZone, [req[1] EXCEPT !.lockId = l]).leaderboards
                = resp[1].leaderboards

(* length of the run of consecutive calendar days of S that ends at day d *)
RunEndingAt(S, d) ==
    CHOOSE n \in 1..Cardinality(S) :
        /\ \A i \in 0..(n - 1) : (d - i) \in S
        /\ (d - n) \notin S

LongestRun(S) ==
    IF S = {} THEN 0
    ELSE CHOOSE n \in 1..Cardinality(S) :
            /\ \E d \in S : RunEndingAt(S, d) = n
            /\ \A d \in S : RunEndingAt(S, d) <= n

CurrentRun(S) ==
    IF S = {} THEN 0
    ELSE RunEndingAt(S, CHOOSE d \in S : \A x \in S : x <= d)

ScanDone == scan # <<>> /\ scan[1].k = Len(scan[1].arr)

\* C2: when the scan of a user's ascending, deduplicated calendar days ends,
\* longest is the length of the longest run of consecutive calendar days and
\* current is the length of the run ending at the last day; both are 0 for
\* the empty sequence.
StreakIsLongestRun ==
    ScanDone =>
        /\ scan[1].value.best = LongestRun(scan[1].days)
        /\ scan[1].value.curr = CurrentRun(scan[1].days)

\* C3: at every step of the streak scan and in its final result,
\* best >= curr.
BestAtLeastCurr ==
    scan # <<>> => scan[1].value.best >= scan[1].value.curr

BestAboveCurrReached ==
    /\ ScanDone
    /\ scan[1].value.curr >= 1
    /\ scan[1].value.best > scan[1].value.curr

\* C4: a day extends the streak if and only if it is exactly one calendar
\* day (reference time zone) after the previous active day, also across a
\* daylight-saving transition.
ExtendsIffNextCalendarDay ==
    (scan # <<>> /\ scan[1].k >= 2) =>
        LET this == scan[1].arr[scan[1].k]
            last == scan[1].arr[scan[1].k - 1]
        IN  (scan[1].value.curr > 1)
                <=> (DayString(timeZone, this) = DayString(timeZone, last) + 1)

(* the newest entry of the log falls on a local day on which its user *)
(* already has a primary-lock entry                                    *)
LastIsDuplicate ==
    /\ Len(log) >= 2
    /\ \E i \in 1..(Len(log) - 1) :
          /\ log[i].username = log[Len(log)].username
          /\ log[i].lockId = PRIMARY_LOCK
          /\ DayString(timeZone, log[i].entryTime)
                = DayString(timeZone, log[Len(log)].entryTime)

\* C5: one more event of a user on a calendar day on which that user already
\* has a qualifying event changes no user's distinct-day count: the month or
\* season ranking by distinct days is the same with and without that event.
DuplicateEventKeepsDayCounts ==
    (Answered /\ resp[1].period = "month" /\ LastIsDuplicate) =>
        resp[1].leaderboards.topUsers
            = MonthTopUsers(
                LeaderboardMatch(Docs(Front(log)), Window(timeZone, req[1]),
                                 req[1].lockId),
                timeZone)

DuplicateEventCounted ==
    /\ Answered
    /\ resp[1].period = "month"
    /\ LastIsDuplicate
    /\ log[Len(log)].lockId = PRIMARY_LOCK
    /\ CountIn(resp[1].leaderboards.topUsers, log[Len(log)].username) = 1
    /\ Cardinality({e \in BoardEvents : e.username = log[Len(log)].username}) >= 2

\* C6: a leaderboard is ordered by count descending, ties by ascending
\* identifier, has no identifier twice, holds the top entries of the full
\* ranking and never more than the limit of 5.
LeaderboardIsTopFive ==
    (rank # <<>> /\ rank[1].done) =>
        LET out == rank[1].out
            rows == rank[1].rows
            shown == {out[i] : i \in 1..Len(out)}
        IN  /\ Len(out) <= 5
            /\ Len(out) = Min(5, Cardinality(rows))
            /\ shown \subseteq rows
            /\ \A i \in 1..Len(out) : \A j \in 1..Len(out) :
                  i < j =>
                    /\ out[i].id # out[j].id
                    /\ \/ out[i].count > out[j].count
                       \/ /\ out[i].count = out[j].count
                          /\ LexLess(out[i].id, out[j].id)
            /\ \A r \in rows \ shown : \A q \in shown :
                  \/ q.count > r.count
                  \/ q.count = r.count /\ LexLess(q.id, r.id)

TruncatedBoardWithTie ==
    /\ rank # <<>>
    /\ rank[1].done
    /\ Cardinality(rank[1].rows) > 5
    /\ Len(rank[1].out) = 5
    /\ rank[1].out[5].count = rank[1].out[4].count
    /\ \E r \in rank[1].rows :
          /\ r.count = rank[1].out[5].count
          /\ \A i \in 1..5 : rank[1].out[i] # r

(* the users of the analyzed set: window, user filter, primary lock *)
AnalyzedUsers ==
    LET w == Window(timeZone, req[1])
    IN  {e.username : e \in
            {f \in Docs(log) :
                /\ f.lockId = PRIMARY_LOCK
                /\ f.entryTime >= w.rangeStart
                /\ f.entryTime <= w.rangeEnd
                /\ (req[1].userId = NoFilter
                        \/ UsernameMatches(f.username, req[1].userId))}}

(* the sum of the values of a bucket mapping *)
Total(f) == SumOver(f, {k \in DOMAIN f : f[k] # 0})

\* C7: in every response the retention buckets sum to the number of distinct
\* users with an event in the analyzed set, and so do the streak buckets.
BucketsSumToUsers ==
    Answered =>
        LET rb == resp[1].analytics.retentionBuckets
            sb == resp[1].analytics.streakBuckets
            n == Cardinality(AnalyzedUsers)
        IN  /\ Total(rb) = n
            /\ Total(sb) = n

TwoUsersBucketed ==
    /\ Answered
    /\ Cardinality(AnalyzedUsers) = 2
    /\ resp[1].analytics.retentionBuckets["2"] = 1
    /\ resp[1].analytics.retentionBuckets["1"] = 1
    /\ resp[1].analytics.streakBuckets["1"] + resp[1].analytics.streakBuckets["2-3"] = 2

RetentionKeys == {ToString(i) : i \in 1..19} \cup {"20+"}

StreakKeys == {"1", "2-3", "4-7", "8-15", "16+"}

StreakRange(key) ==
    IF key = "1" THEN 1..1
    ELSE IF key = "2-3" THEN 2..3
    ELSE IF key = "4-7" THEN 4..7
    ELSE IF key = "8-15" THEN 8..15
    ELSE 16..(MaxDays + 1)

UserDay(ev, u, d) ==
    {e \in ev : e.username = u /\ DayString(timeZone, e.entryTime) = d}

ActiveDays(ev, u) ==
    {DayString(timeZone, e.entryTime) : e \in {f \in ev : f.username = u}}

EarlyDay(ev, u, d) ==
    \E e \in UserDay(ev, u, d) :
        /\ \A f \in UserDay(ev, u, d) : e.entryTime <= f.entryTime
        /\ HourOf(timeZone, e.entryTime) < 8

LateDay(ev, u, d) ==
    \E e \in UserDay(ev, u, d) : HourOf(timeZone, e.entryTime) >= 22

\* C9: for every user the early-day count is the number of distinct calendar
\* days whose chronologically first event has hour < 8 and the late-day count
\* is the number of distinct calendar days with an event of hour >= 22; a
\* user-day gives at most one credit to each.
EarlyLateCountsPerDay ==
    Answered =>
        LET ev == BoardEvents
        IN  \A u \in Users :
                /\ CountIn(resp[1].leaderboards.topEarlyBirds, u)
                      = Cardinality({d \in ActiveDays(ev, u) : EarlyDay(ev, u, d)})
                /\ CountIn(resp[1].leaderboards.topNightOwls, u)
                      = Cardinality({d \in ActiveDays(ev, u) : LateDay(ev, u, d)})

EarlyAndLateSameDay ==
    /\ Answered
    /\ \E u \in Users : \E d \in ActiveDays(BoardEvents, u) :
          /\ Cardinality(UserDay(BoardEvents, u, d)) = 3
          /\ EarlyDay(BoardEvents, u, d)
          /\ LateDay(BoardEvents, u, d)
          /\ \E e \in UserDay(BoardEvents, u, d) :
             \E f \in UserDay(BoardEvents, u, d) :
                e.id < f.id /\ e.entryTime > f.entryTime
          /\ CountIn(resp[1].leaderboards.topEarlyBirds, u) = 1
          /\ CountIn(resp[1].leaderboards.topNightOwls, u) = 1

(* the events matching the filter and window of the answered request *)
Qualifying ==
    LET w == Window(timeZone, req[1])
        m == {e \in Docs(log) :
                /\ e.entryTime >= w.rangeStart
                /\ e.entryTime <= w.rangeEnd
                /\ (req[1].lockId = NoFilter \/ e.lockId = req[1].lockId)
                /\ (req[1].userId = NoFilter
                        \/ UsernameMatches(e.username, req[1].userId))}
    IN  IF w.period = "month" THEN {e \in m : e.lockId = PRIMARY_LOCK} ELSE m

(* raw entries in the day period, distinct days in the month period *)
Activity(ev, u) ==
    IF resp[1].period = "month"
    THEN Cardinality({DayString(timeZone, e.entryTime) :
                        e \in {f \in ev : f.username = u}})
    ELSE Cardinality({e \in ev : e.username = u})

\* C10: mostActiveUser is the user with the greatest raw entry count (day
\* period) or the greatest number of distinct primary-lock active days
\* (month or season period) among the events matching filter and window,
\* ties going to the lexicographically first identifier; it is null only
\* when no qualifying event exists.
MostActiveUserIsTop ==
    Answered =>
        LET mau == resp[1].dayAggregates.mostActiveUser
            ev == Qualifying
        IN  IF ev = {} THEN mau = <<>>
            ELSE /\ Len(mau) = 1
                 /\ mau[1].count = Activity(ev, mau[1].id)
                 /\ \A v \in Users \ {mau[1].id} :
                       \/ Activity(ev, v) < mau[1].count
                       \/ /\ Activity(ev, v) = mau[1].count
                          /\ LexLess(mau[1].id, v)

MonthTieAgainstRawCounts ==
    /\ Answered
    /\ resp[1].period = "month"
    /\ resp[1].dayAggregates.mostActiveUser = <<[id |-> UserA, count |-> 1]>>
    /\ Activity(Qualifying, UserB) = 1
    /\ Cardinality({e \in Qualifying : e.username = UserB}) = 2

(* the events of the window of the answered request *)
InWindow ==
    LET w == Window(timeZone, req[1])
    IN  {e \in Docs(log) :
            e.entryTime >= w.rangeStart /\ e.entryTime <= w.rangeEnd}

UnparseableDateActsAsAbsent ==
    (Answered /\ req[1].date = UnparseableDate) =>
        /\ resp[1].status = 200
        /\ resp[1] = WindowView(log, timeZone,
                                [req[1] EXCEPT !.date = AbsentDate])

\* C13: if the season parameter matches a catalog entry, then for every
\* period and date the window is [season.startAt, season.endAt], the period
\* reported and used downstream is month and previous/next navigation is
\* null; if it matches no entry the request is answered as if no season had
\* been given, with filters.season empty.
SeasonOverridesWindow ==
    Answered =>
        LET known == {s \in SEASONS : ToLower(s.key) = ToLower(req[1].season)}
        IN  IF known # {}
            THEN LET s == CHOOSE x \in known : TRUE
                 IN  /\ resp[1].status = 200
                     /\ resp[1].rangeStart = <<StartOfDay(timeZone, s.startDay)>>
                     /\ resp[1].rangeEnd = <<EndOfDay(timeZone, s.endDay)>>
                     /\ resp[1].filters.period = "month"
                     /\ resp[1].filters.season = s.key
                     /\ resp[1].filters.previousDateCounts = <<>>
                     /\ resp[1].filters.nextDateCounts = <<>>
                     /\ resp[1].dayAggregates.mostUsedLock = <<>>
                     /\ resp[1].dayAggregates.busiestHour = <<>>
            ELSE /\ resp[1] \in WindowResponses(log, timeZone,
                                    [req[1] EXCEPT !.season = NoFilter])
                 /\ resp[1].status = 200 => resp[1].filters.season = NoFilter

SeasonWithEarlierEntries ==
    /\ Answered
    /\ req[1].season = <<115, 49>>
    /\ req[1].period = "last7"
    /\ req[1].date = UnparseableDate
    /\ resp[1].status = 200
    /\ resp[1].total = 1
    /\ \E e \in Docs(log) : e.entryTime < StartOfDay(timeZone, 2)
    /\ resp[1].filters.previousDateCounts = <<>>

RECURSIVE ReplayAlone(_, _, _, _)
ReplayAlone(conf, k, h, n) ==
    IF n = 0 THEN <<>>
    ELSE RateLimitConsume(ReplayAlone(conf, k, h, n - 1), k, conf,
                          h[n].at).buckets

\* C18: buckets are isolated per key: the token count and timestamp of a key
\* are those its own calls alone produce, and every outcome of a call on a
\* key is the outcome of the same call had no call on another key been made.
KeysAreIsolated ==
    hist # <<>> =>
        LET conf == hist[1].conf
        IN  \A k \in RateKeys :
                LET h == hist[1].calls[k]
                    alone == ReplayAlone(conf, k, h, Len(h))
                IN  /\ (k \in DOMAIN buckets) <=> (Len(h) > 0)
                    /\ Len(h) > 0 => buckets[k] = alone[k]
                    /\ \A i \in 1..Len(h) :
                          LET out == RateLimitConsume(
                                        ReplayAlone(conf, k, h, i - 1),
                                        k, conf, h[i].at)
                          IN  /\ out.result.ok = h[i].ok
                              /\ out.buckets[k].tokens = h[i].left

InterleavedKeys ==
    /\ hist # <<>>
    /\ hist[1].conf = [capacity |-> 1, refillPerSec |-> 30]
    /\ LET a == hist[1].calls["api:1.2.3.4"]
           b == hist[1].calls["api:5.6.7.8"]
       IN  /\ Len(a) = 2 /\ Len(b) = 1
           /\ a[1].ok /\ b[1].ok /\ ~a[2].ok
           /\ a[1].at = b[1].at /\ a[2].at = b[1].at

Responded == call # <<>> /\ call[1].resp # <<>>

\* C14: if a store read of a request fails, the request ends with a single
\* error response (status 500, error message, X-Request-ID header) that has
\* none of the payload keys; the failed read is the last operation issued, no
\* operation is issued twice, and a 200 payload is only built when every
\* read returned.
FailedReadGivesSingleError ==
    Responded =>
        LET c == call[1]
            res == c.resp[1]
        IN  /\ c.rl.ok => ((c.failed # "") <=> (res.status = 500))
            /\ res.status = 500 =>
                  /\ DOMAIN res.body = {"error", "details"}
                  /\ res.body.error = "Failed to fetch entries"
                  /\ "X-Request-ID" \in DOMAIN res.headers
                  /\ c.ops[Len(c.ops)] = c.failed
            /\ \A i \in 1..Len(c.ops) : \A j \in 1..Len(c.ops) :
                  i # j => c.ops[i] # c.ops[j]
            /\ res.status = 200 => (c.ops = StoreOps /\ c.failed = "")

LateReadFailed ==
    /\ Responded
    /\ call[1].failed = "agg_achievements"
    /\ call[1].got.total = <<2>>
    /\ call[1].resp[1].status = 500

(* the body the handler builds when every read sees the collection lg *)
SnapshotBody(lg, tz, r) ==
    LET w == Window(tz, r)
        matched == {e \in Docs(lg) :
                        e.entryTime >= w.rangeStart /\ e.entryTime <= w.rangeEnd}
    IN  [entries |-> FindEntries(matched, r.page, r.limit),
         pagination |-> Pagination(Cardinality(matched), r.page, r.limit),
         filters |-> [entryCounts |-> EntryCounts(matched)],
         dayAggregates |-> DayAggregates(matched, tz, w.period)]

\* C15: all reads of one request observe one state of the log, also when
\* entries are appended while the request runs: every 200 payload is the
\* payload of a single log state, so uniqueUsers <= pagination.total, the
\* entryCounts values sum to pagination.total and, in the day period,
\* mostActiveUser.count <= pagination.total.
ReadsSeeOneLogState ==
    (Responded /\ call[1].resp[1].status = 200) =>
        LET b == call[1].resp[1].body
        IN  /\ b.dayAggregates.uniqueUsers <= b.pagination.total
            /\ Total(b.filters.entryCounts) = b.pagination.total
            /\ \A i \in 1..Len(b.dayAggregates.mostActiveUser) :
                  b.dayAggregates.mostActiveUser[i].count <= b.pagination.total
            /\ \E k \in 0..Len(log) :
                  b = SnapshotBody(SubSeq(log, 1, k), timeZone, call[1].r)

\* C17: when rateLimitConsume denies the key, GET answers with status 429, an
\* error body, a Retry-After header and an X-Request-ID header, and it has
\* issued no store operation.
RateLimitedBeforeStore ==
    (call # <<>> /\ ~call[1].rl.ok) =>
        /\ call[1].resp # <<>>
        /\ call[1].resp[1].status = 429
        /\ DOMAIN call[1].resp[1].body = {"error"}
        /\ DOMAIN call[1].resp[1].headers = {"Retry-After", "X-Request-ID"}
        /\ call[1].resp[1].headers["Retry-After"]
              = ToString(call[1].rl.retryAfter)
        /\ call[1].ops = <<>>

DeniedWithEntriesStored ==
    /\ call # <<>>
    /\ ~call[1].rl.ok
    /\ call[1].rl.retryAfter >= 1
    /\ call[1].resp # <<>>
    /\ call[1].resp[1].status = 429
    /\ Len(log) = 2

(* e comes before f in the list order: later entry first, on equal *)
(* timestamps the greater id first                                  *)
ListedBefore(e, f) ==
    \/ e.entryTime > f.entryTime
    \/ e.entryTime = f.entryTime /\ e.id > f.id

RankOf(e, S) == 1 + Cardinality({f \in S : ListedBefore(f, e)})

IdsOf(page) == {page[i].id : i \in 1..Len(page)}

\* C19: for a fixed log, filter and window and every limit L >= 1 and page
\* p >= 1, page p holds exactly the entries at ranks (p-1)*L+1 .. p*L of the
\* matching entries ordered by entryTime descending with id as tie-break,
\* totalPages = ceil(total / L), and the pages 1..totalPages are pairwise
\* disjoint and together are the matching entries, also when entries share a
\* timestamp.
PagesPartitionTheList ==
    Answered =>
        LET r == req[1]
            S == InWindow
            page == resp[1].entries
            pg == resp[1].pagination
            pageOf(p) == PageView(log, timeZone, [r EXCEPT !.page = p]).entries
        IN  /\ pg.total = Cardinality(S)
            /\ pg.totalPages * r.limit >= pg.total
            /\ (pg.totalPages - 1) * r.limit < pg.total \/ pg.total = 0
            /\ pg.total = 0 => pg.totalPages = 0
            /\ IdsOf(page) = {e.id : e \in {f \in S :
                    /\ RankOf(f, S) >= (r.page - 1) * r.limit + 1
                    /\ RankOf(f, S) <= r.page * r.limit}}
            /\ \A i \in 1..Len(page) :
                  /\ page[i] \in S
                  /\ RankOf(page[i], S) = (r.page - 1) * r.limit + i
            /\ \A p \in 1..pg.totalPages : \A q \in 1..pg.totalPages :
                  p # q => IdsOf(pageOf(p)) \cap IdsOf(pageOf(q)) = {}
            /\ UNION {IdsOf(pageOf(p)) : p \in 1..pg.totalPages}
                  = {e.id : e \in S}

SecondPageOfEqualTimes ==
    /\ Answered
    /\ req[1].page = 2
    /\ req[1].limit = 2
    /\ resp[1].pagination.total = 3
    /\ resp[1].pagination.totalPages = 2
    /\ Len(resp[1].entries) = 1
    /\ \A e \in InWindow : e.entryTime = resp[1].entries[1].entryTime
    /\ \A e \in InWindow : resp[1].entries[1].id <= e.id

(* the primary-lock events of the window of the answered request *)
PrimaryInWindow == {e \in InWindow : e.lockId = PRIMARY_LOCK}

(* the month of the lifetime-first primary-lock event of user u *)
LifetimeFirstMonth(u) ==
    LET mine == {e \in Docs(log) : e.username = u /\ e.lockId = PRIMARY_LOCK}
        first == CHOOSE e \in mine : \A f \in mine : e.entryTime <= f.entryTime
    IN  MonthOf(DayString(timeZone, first.entryTime))

Least(S) == CHOOSE x \in S : \A y \in S : x <= y

\* C21: for every points value p >= 0 the level is 0 below 1, 1 below 5,
\* 2 below 10, 3 below 20, 4 below 30 and 5 from 30 on; nextLevelAt is the
\* smallest of the thresholds 1, 5, 10, 20, 30 strictly greater than p, and
\* it is null exactly when p >= 30.
LevelsFollowThresholds ==
    (scan # <<>> /\ LevelDone(scan[1])) =>
        LET p == scan[1].points
            out == LevelOf(p)
            above == {t \in {1, 5, 10, 20, 30} : t > p}
        IN  /\ out.level = scan[1].currentLevel
            /\ out.level = IF p < 1 THEN 0 ELSE IF p < 5 THEN 1
                           ELSE IF p < 10 THEN 2 ELSE IF p < 20 THEN 3
                           ELSE IF p < 30 THEN 4 ELSE 5
            /\ (out.nextLevelAt = <<>>) <=> (p >= 30)
            /\ above # {} => out.nextLevelAt = <<Least(above)>>

ThresholdJustReached ==
    /\ scan # <<>>
    /\ LevelDone(scan[1])
    /\ scan[1].points = 10
    /\ scan[1].currentLevel = 3
    /\ scan[1].nextAt = <<20>>


(* the primary-lock events inside the season of the answered request *)
SeasonEvents ==
    LET w == Window(timeZone, req[1])
    IN  OnPrimary(InRange(Docs(log), w.rangeStart, w.rangeEnd))

(* the distinct active days among a set of events *)
DaysOf(ev) == {DayString(timeZone, e.entryTime) : e \in ev}

(* the stored identifiers the requested user goes by *)
OwnNames ==
    {n \in UsersOf(SeasonEvents) : UsernameMatches(n, req[1].userId)}

(* the season events of the requested user *)
OwnEvents == {e \in SeasonEvents : e.username \in OwnNames}

(* participants listed before a participant with identifier own and p points *)
Ahead(own, p) ==
    {n \in UsersOf(SeasonEvents) \ OwnNames :
        LET q == Cardinality(DaysOf({e \in SeasonEvents : e.username = n}))
        IN  q > p \/ (q = p /\ LexLess(n, own))}

\* C22: for a user with primary-lock activity inside the active season,
\* points is the number of distinct active days of that user in the season,
\* and rank is 1 + the number of other participants with more points, or
\* with equal points and a lexicographically smaller identifier.
PointsAndRankOfUser ==
    (Answered /\ resp[1].userSeasonProgress # <<>> /\ OwnEvents # {}) =>
        LET usp == resp[1].userSeasonProgress[1]
        IN  /\ usp.points = Cardinality(DaysOf(OwnEvents))
            /\ \E own \in OwnNames :
                  usp.rank = <<1 + Cardinality(Ahead(own, usp.points))>>

\* C30: in every non-null userSeasonProgress, currentStreakDays <=
\* longestStreakDays <= points, also when a username occurs with different
\* letter case in the log; points = 0 implies a null rank and two zero
\* streak values.
StreaksWithinPoints ==
    (Answered /\ resp[1].userSeasonProgress # <<>>) =>
        LET usp == resp[1].userSeasonProgress[1]
        IN  /\ usp.currentStreakDays <= usp.longestStreakDays
            /\ usp.longestStreakDays <= usp.points
            /\ usp.points = 0 =>
                  /\ usp.rank = <<>>
                  /\ usp.currentStreakDays = 0
                  /\ usp.longestStreakDays = 0


(* the entries of the requested user, matched ignoring letter case *)
ProfileEvents ==
    {e \in Docs(log) : ToLower(e.username) = ToLower(req[1].userId)}

Has(profile, key) ==
    \E i \in 1..Len(profile.achievements) : profile.achievements[i] = key

BadgesUseReferenceZone ==
    (Answered /\ resp[1].userProfile # <<>>) =>
        LET p == resp[1].userProfile[1]
            mine == ProfileEvents
            firstOf(d) ==
                LET G == {e \in mine : DayString(timeZone, e.entryTime) = d}
                IN  CHOOSE e \in G : \A f \in G : e.entryTime <= f.entryTime
        IN  /\ Has(p, "early_bird") <=>
                  \E d \in DaysOf(mine) :
                      HourOf(timeZone, firstOf(d).entryTime) < EarlyHour
            /\ Has(p, "night_owl") <=>
                  \E e \in mine : HourOf(timeZone, e.entryTime) >= LateHour


----------------------------------------------------------------------------
(* computeAchievements *)

Summarised == req # <<>> /\ resp # <<>>

(* the keys of the given kind named by the entries, in input order *)
UserKeys(entries) ==
    [i \in 1..Len(entries) |->
        IF entries[i].userId # <<>> THEN entries[i].userId[1]
        ELSE IF entries[i].username # <<>> THEN entries[i].username[1]
        ELSE Unknown]
LockKeys(entries) ==
    LET with == SelectSeq(entries, LAMBDA e : e.lockId # <<>>)
    IN  [i \in 1..Len(with) |-> with[i].lockId[1]]
HourKeys(entries, tz) ==
    LET with == SelectSeq(entries, LAMBDA e : e.entryTime # <<>>)
    IN  [i \in 1..Len(with) |-> HourOf(tz, with[i].entryTime[1])]

KeySet(keys) == {keys[i] : i \in 1..Len(keys)}
TimesSeen(keys, k) == Cardinality({i \in 1..Len(keys) : keys[i] = k})
FirstSeen(keys, k) == Least({i \in 1..Len(keys) : keys[i] = k})

(* k has the greatest count, and among the keys of that count it comes first *)
IsFirstMax(keys, k) ==
    /\ k \in KeySet(keys)
    /\ \A o \in KeySet(keys) :
          \/ TimesSeen(keys, o) < TimesSeen(keys, k)
          \/ /\ TimesSeen(keys, o) = TimesSeen(keys, k)
             /\ FirstSeen(keys, k) <= FirstSeen(keys, o)

(* C26: totalEntries is the number of entries, uniqueUsers the number of    *)
(* distinct user identifiers with 'unknown' for entries that have none, and *)
(* mostActiveUser, mostUsedLock and busiestHour name the key of the         *)
(* greatest count, the first encountered one among equals, with that count; *)
(* for the empty input the two numbers are 0 and the other fields are null  *)
SummaryCountsAndFirstMax ==
    Summarised =>
        LET entries == req[1]
            a == resp[1]
            users == UserKeys(entries)
            locks == LockKeys(entries)
            hours == HourKeys(entries, timeZone)
        IN  /\ a.totalEntries = Len(entries)
            /\ a.uniqueUsers = Cardinality(KeySet(users))
            /\ entries # <<>> =>
                  /\ a.mostActiveUser # <<>>
                  /\ IsFirstMax(users, a.mostActiveUser[1].id)
                  /\ a.mostActiveUser[1].count
                        = TimesSeen(users, a.mostActiveUser[1].id)
            /\ locks # <<>> =>
                  /\ a.mostUsedLock # <<>>
                  /\ IsFirstMax(locks, a.mostUsedLock[1].id)
                  /\ a.mostUsedLock[1].count
                        = TimesSeen(locks, a.mostUsedLock[1].id)
            /\ hours # <<>> =>
                  /\ a.busiestHour # <<>>
                  /\ IsFirstMax(hours, a.busiestHour[1].hour)
                  /\ a.busiestHour[1].count
                        = TimesSeen(hours, a.busiestHour[1].hour)
            /\ entries = <<>> =>
                  /\ a.mostActiveUser = <<>>
                  /\ a.firstEntryTime = <<>>
                  /\ a.lastEntryTime = <<>>
                  /\ a.busiestHour = <<>>
                  /\ a.mostUsedLock = <<>>

(* a summary of a page on which two users, two locks and two hours tie, and *)
(* the one encountered first is in each case the greater key                *)
TiesGoToFirstSeen ==
    /\ Summarised
    /\ Len(req[1]) >= 2
    /\ UserKeys(req[1])[1] = UserB
    /\ TimesSeen(UserKeys(req[1]), UserA) = TimesSeen(UserKeys(req[1]), UserB)
    /\ resp[1].mostActiveUser[1].id = UserB
    /\ resp[1].mostUsedLock # <<>>
    /\ resp[1].mostUsedLock[1].id = OtherLock
    /\ TimesSeen(LockKeys(req[1]), PRIMARY_LOCK) = resp[1].mostUsedLock[1].count
    /\ resp[1].busiestHour # <<>>
    /\ \E h \in KeySet(HourKeys(req[1], timeZone)) :
          /\ h < resp[1].busiestHour[1].hour
          /\ TimesSeen(HourKeys(req[1], timeZone), h) = resp[1].busiestHour[1].count


----------------------------------------------------------------------------
(* Global leaderboards *)

(* the primary-lock events of the whole log *)
LifetimeEvents == {e \in Docs(log) : e.lockId = PRIMARY_LOCK}

(* C27: the global leaderboards of a response are those of the primary-lock *)
(* events of the whole log, whatever the period, date, season, lockId,      *)
(* userId, page and limit of the request (the right-hand sides below do not *)
(* mention the request, so any two requests over the same log get the same  *)
(* boards): events on other locks do not count, events inside and outside   *)
(* the window count alike, and a user's topUsers count is the lifetime      *)
(* number of days with a primary-lock event                                 *)
GlobalBoardsIgnoreRequest ==
    Answered =>
        /\ resp[1].globalLeaderboards
              = GlobalLeaderboards(LifetimeEvents, timeZone)
        /\ \A u \in Users :
              /\ CountIn(resp[1].globalLeaderboards.topUsers, u)
                    = Cardinality(ActiveDays(LifetimeEvents, u))
              /\ CountIn(resp[1].globalLeaderboards.topEarlyBirds, u)
                    = Cardinality({d \in ActiveDays(LifetimeEvents, u) :
                                      EarlyDay(LifetimeEvents, u, d)})
              /\ CountIn(resp[1].globalLeaderboards.topNightOwls, u)
                    = Cardinality({d \in ActiveDays(LifetimeEvents, u) :
                                      LateDay(LifetimeEvents, u, d)})

(* a day request filtered to the other lock and to one user, whose window   *)
(* holds an entry of the other lock only, answered with a global board that *)
(* counts the other user's primary-lock entry of another day                *)
GlobalBoardBeyondTheWindow ==
    /\ Answered
    /\ req[1].period = "day"
    /\ req[1].date = 1
    /\ req[1].season = NoFilter
    /\ req[1].lockId = OtherLock
    /\ req[1].userId = UserA
    /\ req[1].page = 2
    /\ resp[1].total = 1
    /\ resp[1].leaderboards.topUsers = <<[id |-> UserA, count |-> 1]>>
    /\ resp[1].globalLeaderboards.topUsers = <<[id |-> UserB, count |-> 1]>>
    /\ resp[1].globalLeaderboards.topNightOwls = <<[id |-> UserB, count |-> 1]>>


----------------------------------------------------------------------------
(* Token and throughput bounds of the limiter *)

(* the calls i..j of the history h that were answered ok *)
OkCalls(h, i, j) == Cardinality({n \in i..j : h[n].ok})

----------------------------------------------------------------------------
(* Retry-After *)

(* C29: when a call is denied with retryAfter = R (capacity >= 1, rate > 0), *)
(* the denied call leaves the key no fewer tokens than it had, and the first *)
(* call on the key made R seconds or more after the denial is answered ok,   *)
(* however many denied calls were made in between                            *)
RetryAfterIsHonoured ==
    hist # <<>> =>
        LET h == hist[1].calls
        IN  \A i \in 1..Len(h) :
                ~h[i].result.ok =>
                    /\ h[i].had # <<>> => ~DoubleLess(h[i].left, h[i].had[1])
                    /\ \A j \in (i + 1)..Len(h) :
                          (/\ h[j].at >= h[i].at + h[i].result.retryAfter * 1000
                           /\ \A k \in (i + 1)..(j - 1) :
                                 /\ h[k].at < h[i].at + h[i].result.retryAfter * 1000
                                 /\ ~h[k].result.ok)
                              => h[j].result.ok

====
